---- MODULE Spec2Model ----
(***************************************************************************)
(* State-machine model of contracts/PrivacyCargoTracking_FHE.sol           *)
(* (contract PrivacyCargoTracking).  One action per state-changing         *)
(* external function; a call that hits a failing require is the reverted   *)
(* transaction it is: storage, ACL and event log are unchanged; the        *)
(* reason is what the function's ...Require operator gives.  The view      *)
(* functions, the compiler-generated getters of the two public mappings    *)
(* included, are functions of the storage and msg.sender and are operators *)
(* giving the outcome of the call: revert reason or returned value.        *)
(***************************************************************************)
EXTENDS Integers, Sequences, FiniteSets, TLC

VARIABLES
    cargos,         \* mapping(string => Cargo) cargos
    ownerCargos,    \* mapping(address => string[]) ownerCargos
    perms,          \* the library's persistent ACL: pairs <<handle, principal>>
    log,            \* events emitted so far, in order
    now,            \* block.timestamp of the current block
    deterministic,  \* whether the library derives a handle from the plaintext alone
    \* storage of the tutorial's contract PrivateCargoTracking (unnamed/part_000)
    Tutorial_cargos,    \* mapping(uint32 => Cargo) private cargos
    nextCargoId,        \* uint32 public nextCargoId
    cargoLocations,     \* mapping(uint32 => Location[]) private cargoLocations
    cargoAccess,        \* mapping(uint32 => mapping(address => bool)) cargoAccess
    returned,           \* the value the latest createCargo of the tutorial returned
    \* the tutorial's frontend module src/utils/fhevm.js (unnamed/part_000)
    fhevmInstance,      \* let fhevmInstance
    pc,                 \* where each call of initFHEVM stands
    pending,            \* the createInstance call each suspended initFHEVM awaits
    result,             \* what initFHEVM returned to each caller
    invoked,            \* calls of createInstance made so far
    failed              \* calls of createInstance that were rejected

tutorialVars == <<Tutorial_cargos, nextCargoId, cargoLocations, cargoAccess, returned>>

frontendVars == <<fhevmInstance, pc, pending, result, invoked, failed>>

vars == <<cargos, ownerCargos, perms, log, now, deterministic, tutorialVars,
          frontendVars>>

(***************************************************************************)
(* Bounds of the model                                                     *)
(***************************************************************************)
MaxTime == 1        \* block.timestamp ranges over 0..MaxTime
MaxLog == 2         \* transactions that emit an event

(***************************************************************************)
(* Program constants                                                       *)
(***************************************************************************)
ZERO == 0           \* address(0)
MaxPriority == 3    \* require(priority <= 3)

Senders == {1, 2}                       \* accounts that sign transactions
Addresses == {ZERO} \cup Senders        \* address arguments of transactions
Callers == Addresses \cup {3}            \* msg.sender of a view call (eth_call)
Contract == 9                           \* address(this)
CargoIds == {"", "C1", "C2"}            \* string keys; "" has length 0
DestinationArgs == {"", "Paris"}
UpdateArgs == {<<"InTransit", "Lyon">>, <<"", "">>}   \* (status, location)
PriorityArgs == {MaxPriority, MaxPriority + 1}
\* (destination, priority) of the createCargo calls: valid, and each invalid alone
CreateArgs == {<<"Paris", MaxPriority>>, <<"", MaxPriority>>,
               <<"Paris", MaxPriority + 1>>}
IsFragileArgs == {TRUE}
ValueArgs == {500}

(***************************************************************************)
(* Revert reasons (the require messages of the contract)                   *)
(***************************************************************************)
OK == "ok"
AlreadyExists == "Cargo already exists"
EmptyId == "Cargo ID cannot be empty"
EmptyDestination == "Destination cannot be empty"
BadPriority == "Priority must be 0-3"
NotFound == "Cargo does not exist"
OnlyOwner == "Only cargo owner allowed"
NotAuthorized == "Not authorized"
IsPrivate == "Cargo is private"
OutOfBounds == "array index out of bounds"

(***************************************************************************)
(* Ciphertext handles and the library's ACL                                *)
(***************************************************************************)
NoHandle == [type |-> "none", pt |-> 0, salt |-> ""]
NoRet == <<>>

\* FHE.asEuint8 / FHE.asEbool / FHE.asEuint64: a handle for a plaintext.  The
\* library is outside the repository; whether two encryptions of one plaintext
\* give one handle or two is left open (deterministic).
TrivialEncrypt(type, pt, cargoId) ==
    [type |-> type, pt |-> pt, salt |-> IF deterministic THEN "" ELSE cargoId]

asEuint8(priority, cargoId) == TrivialEncrypt("euint8", priority, cargoId)
asEbool(isFragile, cargoId) == TrivialEncrypt("ebool", IF isFragile THEN 1 ELSE 0, cargoId)
asEuint64(cargoValue, cargoId) == TrivialEncrypt("euint64", cargoValue, cargoId)

\* FHE.allow(handle, account) on ACL acl: adds the pair, never removes one.
Allow(acl, handle, account) == acl \cup {<<handle, account>>}

\* FHE.allowThis(handle)
AllowThis(acl, handle) == Allow(acl, handle, Contract)

isAllowed(handle, account) == <<handle, account>> \in perms

(***************************************************************************)
(* struct Cargo; an unset mapping slot reads as the all-zero struct        *)
(***************************************************************************)
EmptyCargo ==
    [cargoId |-> "", destination |-> "", status |-> "", location |-> "",
     encryptedPriority |-> NoHandle, encryptedIsFragile |-> NoHandle,
     encryptedValue |-> NoHandle, owner |-> ZERO, authorizedViewer |-> ZERO,
     timestamp |-> 0, isPublic |-> FALSE, exists |-> FALSE]

Handles(c) == {c.encryptedPriority, c.encryptedIsFragile, c.encryptedValue}

(***************************************************************************)
(* Tutorial contract: struct Cargo and the storage after deployment        *)
(***************************************************************************)
\* uint32 keys the calls use: 0, the ids createCargo can assign within MaxLog
\* emitting transactions, and the first id past them
CargoNumbers == 0..(MaxLog + 1)

Tutorial_EmptyCargo ==
    [weight |-> NoHandle, value |-> NoHandle, receiver |-> NoHandle,
     status |-> NoHandle, shipper |-> ZERO, timestamp |-> 0]

Tutorial_Init ==
    /\ Tutorial_cargos = [id \in CargoNumbers |-> Tutorial_EmptyCargo]
    /\ nextCargoId = 1
    /\ cargoLocations = [id \in CargoNumbers |-> <<>>]
    /\ cargoAccess = [id \in CargoNumbers |-> [a \in Addresses |-> FALSE]]
    /\ returned = 0

\* storage of a contract that is not deployed
NotDeployed == <<>>

\* the frontend module not loaded
FrontendNotLoaded ==
    /\ fhevmInstance = NotDeployed
    /\ pc = NotDeployed
    /\ pending = NotDeployed
    /\ result = NotDeployed
    /\ invoked = NotDeployed
    /\ failed = NotDeployed

\* the contract PrivacyCargoTracking deployed alone; perms, log and now are
\* the chain's
Init ==
    /\ FrontendNotLoaded
    /\ Tutorial_cargos = NotDeployed
    /\ nextCargoId = NotDeployed
    /\ cargoLocations = NotDeployed
    /\ cargoAccess = NotDeployed
    /\ returned = NotDeployed
    /\ cargos = [id \in CargoIds |-> EmptyCargo]
    /\ ownerCargos = [a \in Addresses |-> <<>>]
    /\ perms = {}
    /\ log = <<>>
    /\ now = 0
    /\ deterministic \in BOOLEAN

(***************************************************************************)
(* Outcome of a call                                                       *)
(***************************************************************************)
\* a failed require: the transaction reverts, nothing is written
Revert == UNCHANGED <<cargos, ownerCargos, perms, log, now, deterministic>>

\* a view call that reverts / that returns ret
Fail(reason) == [result |-> reason, ret |-> NoRet]
Return(ret) == [result |-> OK, ret |-> ret]

(***************************************************************************)
(* createCargo                                                             *)
(***************************************************************************)
\* createCargoRequire without its first require
createCargoRequireNoExists(cargoId, destination, priority) ==
    IF ~(Len(cargoId) > 0) THEN EmptyId
    ELSE IF ~(Len(destination) > 0) THEN EmptyDestination
    ELSE IF ~(priority <= MaxPriority) THEN BadPriority
    ELSE OK

\* createCargoRequire with priority < 3 in the last require
createCargoRequireBelow(cargoId, destination, priority) ==
    IF cargos[cargoId].exists THEN AlreadyExists
    ELSE IF ~(Len(cargoId) > 0) THEN EmptyId
    ELSE IF ~(Len(destination) > 0) THEN EmptyDestination
    ELSE IF ~(priority < MaxPriority) THEN BadPriority
    ELSE OK

\* createCargoRequire testing the arguments before the existing record
createCargoRequireArgumentsFirst(cargoId, destination, priority) ==
    IF ~(Len(cargoId) > 0) THEN EmptyId
    ELSE IF ~(Len(destination) > 0) THEN EmptyDestination
    ELSE IF ~(priority <= MaxPriority) THEN BadPriority
    ELSE IF cargos[cargoId].exists THEN AlreadyExists
    ELSE OK

\* the four require statements, in source order
createCargoRequire(cargoId, destination, priority) ==
    IF cargos[cargoId].exists THEN AlreadyExists
    ELSE IF ~(Len(cargoId) > 0) THEN EmptyId
    ELSE IF ~(Len(destination) > 0) THEN EmptyDestination
    ELSE IF ~(priority <= MaxPriority) THEN BadPriority
    ELSE OK

\* createCargoGrants without FHE.allowThis(encryptedValue)
createCargoGrantsNoThis(acl, sender, encryptedPriority, encryptedIsFragile, encryptedValue) ==
    LET a1 == Allow(AllowThis(acl, encryptedPriority), encryptedPriority, sender)
        a2 == Allow(AllowThis(a1, encryptedIsFragile), encryptedIsFragile, sender)
    IN  Allow(a2, encryptedValue, sender)

\* allowThis and allow(msg.sender) on each of the three new handles
createCargoGrants(acl, sender, encryptedPriority, encryptedIsFragile, encryptedValue) ==
    LET a1 == Allow(AllowThis(acl, encryptedPriority), encryptedPriority, sender)
        a2 == Allow(AllowThis(a1, encryptedIsFragile), encryptedIsFragile, sender)
    IN  Allow(AllowThis(a2, encryptedValue), encryptedValue, sender)

\* NewCargo with the exists member left at its default
NewCargoNotMarked(sender, cargoId, destination, encryptedPriority, encryptedIsFragile, encryptedValue) ==
    [cargoId |-> cargoId, destination |-> destination,
     status |-> "Created", location |-> "Origin",
     encryptedPriority |-> encryptedPriority,
     encryptedIsFragile |-> encryptedIsFragile,
     encryptedValue |-> encryptedValue,
     owner |-> sender, authorizedViewer |-> ZERO,
     timestamp |-> now, isPublic |-> FALSE, exists |-> FALSE]

\* the struct literal stored in cargos[cargoId]
NewCargo(sender, cargoId, destination, encryptedPriority, encryptedIsFragile, encryptedValue) ==
    [cargoId |-> cargoId, destination |-> destination,
     status |-> "Created", location |-> "Origin",
     encryptedPriority |-> encryptedPriority,
     encryptedIsFragile |-> encryptedIsFragile,
     encryptedValue |-> encryptedValue,
     owner |-> sender, authorizedViewer |-> ZERO,
     timestamp |-> now, isPublic |-> FALSE, exists |-> TRUE]

\* createCargo putting the id at the head of the owner's array
createCargoPrepend(sender, cargoId, destination, priority, isFragile, cargoValue) ==
    LET err == createCargoRequire(cargoId, destination, priority)
        encryptedPriority == asEuint8(priority, cargoId)
        encryptedIsFragile == asEbool(isFragile, cargoId)
        encryptedValue == asEuint64(cargoValue, cargoId)
    IN  IF err # OK
        THEN Revert
        ELSE /\ perms' = createCargoGrants(perms, sender, encryptedPriority,
                                           encryptedIsFragile, encryptedValue)
             /\ cargos' = [cargos EXCEPT ![cargoId] =
                             NewCargo(sender, cargoId, destination, encryptedPriority,
                                      encryptedIsFragile, encryptedValue)]
             /\ ownerCargos' = [ownerCargos EXCEPT ![sender] = <<cargoId>> \o @]
             /\ log' = Append(log, <<"CargoCreated", cargoId, sender>>)
             /\ UNCHANGED <<now, deterministic>>

createCargo(sender, cargoId, destination, priority, isFragile, cargoValue) ==
    LET err == createCargoRequire(cargoId, destination, priority)
        encryptedPriority == asEuint8(priority, cargoId)
        encryptedIsFragile == asEbool(isFragile, cargoId)
        encryptedValue == asEuint64(cargoValue, cargoId)
    IN  IF err # OK
        THEN Revert
        ELSE /\ perms' = createCargoGrants(perms, sender, encryptedPriority,
                                           encryptedIsFragile, encryptedValue)
             /\ cargos' = [cargos EXCEPT ![cargoId] =
                             NewCargo(sender, cargoId, destination, encryptedPriority,
                                      encryptedIsFragile, encryptedValue)]
             /\ ownerCargos' = [ownerCargos EXCEPT ![sender] = Append(@, cargoId)]
             /\ log' = Append(log, <<"CargoCreated", cargoId, sender>>)
             /\ UNCHANGED <<now, deterministic>>

(***************************************************************************)
(* updateStatus                                                            *)
(***************************************************************************)
\* updateStatusRequire without the owner require
updateStatusRequireAnyone(sender, cargoId) ==
    IF ~cargos[cargoId].exists THEN NotFound
    ELSE OK

updateStatusRequire(sender, cargoId) ==
    IF ~cargos[cargoId].exists THEN NotFound
    ELSE IF ~(cargos[cargoId].owner = sender) THEN OnlyOwner
    ELSE OK

\* updateStatus storing a new struct literal, the encrypted fields left unset
updateStatusNewStruct(sender, cargoId, status, location) ==
    LET err == updateStatusRequire(sender, cargoId)
    IN  IF err # OK
        THEN Revert
        ELSE /\ cargos' = [cargos EXCEPT ![cargoId] =
                             [EmptyCargo EXCEPT !.cargoId = cargoId,
                                                !.destination = cargos[cargoId].destination,
                                                !.status = status,
                                                !.location = location,
                                                !.owner = cargos[cargoId].owner,
                                                !.authorizedViewer =
                                                    cargos[cargoId].authorizedViewer,
                                                !.timestamp = now,
                                                !.isPublic = cargos[cargoId].isPublic,
                                                !.exists = TRUE]]
             /\ log' = Append(log, <<"CargoStatusUpdated", cargoId, status, location>>)
             /\ UNCHANGED <<ownerCargos, perms, now, deterministic>>

\* updateStatus without the assignment to currentLocation
updateStatusNoLocation(sender, cargoId, status, location) ==
    LET err == updateStatusRequire(sender, cargoId)
    IN  IF err # OK
        THEN Revert
        ELSE /\ cargos' = [cargos EXCEPT ![cargoId].status = status,
                                         ![cargoId].timestamp = now]
             /\ log' = Append(log, <<"CargoStatusUpdated", cargoId, status, location>>)
             /\ UNCHANGED <<ownerCargos, perms, now, deterministic>>

\* updateStatus without the assignment of block.timestamp
updateStatusNoTimestamp(sender, cargoId, status, location) ==
    LET err == updateStatusRequire(sender, cargoId)
    IN  IF err # OK
        THEN Revert
        ELSE /\ cargos' = [cargos EXCEPT ![cargoId].status = status,
                                         ![cargoId].location = location]
             /\ log' = Append(log, <<"CargoStatusUpdated", cargoId, status, location>>)
             /\ UNCHANGED <<ownerCargos, perms, now, deterministic>>

updateStatus(sender, cargoId, status, location) ==
    LET err == updateStatusRequire(sender, cargoId)
    IN  IF err # OK
        THEN Revert
        ELSE /\ cargos' = [cargos EXCEPT ![cargoId].status = status,
                                         ![cargoId].location = location,
                                         ![cargoId].timestamp = now]
             /\ log' = Append(log, <<"CargoStatusUpdated", cargoId, status, location>>)
             /\ UNCHANGED <<ownerCargos, perms, now, deterministic>>

(***************************************************************************)
(* updatePrivacySettings                                                   *)
(***************************************************************************)
\* updatePrivacySettingsRequire letting the authorized viewer through
updatePrivacySettingsRequireViewer(sender, cargoId) ==
    IF ~cargos[cargoId].exists THEN NotFound
    ELSE IF ~(\/ cargos[cargoId].owner = sender
              \/ cargos[cargoId].authorizedViewer = sender) THEN OnlyOwner
    ELSE OK

updatePrivacySettingsRequire(sender, cargoId) ==
    IF ~cargos[cargoId].exists THEN NotFound
    ELSE IF ~(cargos[cargoId].owner = sender) THEN OnlyOwner
    ELSE OK

\* updatePrivacySettingsGrants taking the permissions of the viewer it replaces
updatePrivacySettingsGrantsRevoking(acl, cargo, authorizedViewer) ==
    LET kept == IF cargo.authorizedViewer \in {cargo.owner, authorizedViewer}
                THEN acl
                ELSE acl \ {<<h, cargo.authorizedViewer>> : h \in Handles(cargo)}
    IN  IF authorizedViewer # ZERO
        THEN Allow(Allow(Allow(kept, cargo.encryptedPriority, authorizedViewer),
                         cargo.encryptedIsFragile, authorizedViewer),
                   cargo.encryptedValue, authorizedViewer)
        ELSE kept

\* updatePrivacySettingsGrants without the test for address(0)
updatePrivacySettingsGrantsAlways(acl, cargo, authorizedViewer) ==
    Allow(Allow(Allow(acl, cargo.encryptedPriority, authorizedViewer),
                cargo.encryptedIsFragile, authorizedViewer),
          cargo.encryptedValue, authorizedViewer)

\* if (authorizedViewer != address(0)) { three FHE.allow calls }
updatePrivacySettingsGrants(acl, cargo, authorizedViewer) ==
    IF authorizedViewer # ZERO
    THEN Allow(Allow(Allow(acl, cargo.encryptedPriority, authorizedViewer),
                     cargo.encryptedIsFragile, authorizedViewer),
               cargo.encryptedValue, authorizedViewer)
    ELSE acl

\* updatePrivacySettings flipping the stored isPublic when the argument is true
updatePrivacySettingsToggle(sender, cargoId, isPublic, authorizedViewer) ==
    LET err == updatePrivacySettingsRequire(sender, cargoId)
    IN  IF err # OK
        THEN Revert
        ELSE /\ cargos' = [cargos EXCEPT ![cargoId].isPublic =
                                             (cargos[cargoId].isPublic # isPublic),
                                         ![cargoId].authorizedViewer = authorizedViewer]
             /\ perms' = updatePrivacySettingsGrants(perms, cargos[cargoId], authorizedViewer)
             /\ log' = Append(log, <<"CargoPrivacyUpdated", cargoId, isPublic>>)
             /\ UNCHANGED <<ownerCargos, now, deterministic>>

\* updatePrivacySettings emitting the isPublic it found stored
updatePrivacySettingsEmitOld(sender, cargoId, isPublic, authorizedViewer) ==
    LET err == updatePrivacySettingsRequire(sender, cargoId)
    IN  IF err # OK
        THEN Revert
        ELSE /\ cargos' = [cargos EXCEPT ![cargoId].isPublic = isPublic,
                                         ![cargoId].authorizedViewer = authorizedViewer]
             /\ perms' = updatePrivacySettingsGrants(perms, cargos[cargoId], authorizedViewer)
             /\ log' = Append(log, <<"CargoPrivacyUpdated", cargoId,
                                     cargos[cargoId].isPublic>>)
             /\ UNCHANGED <<ownerCargos, now, deterministic>>

updatePrivacySettings(sender, cargoId, isPublic, authorizedViewer) ==
    LET err == updatePrivacySettingsRequire(sender, cargoId)
    IN  IF err # OK
        THEN Revert
        ELSE /\ cargos' = [cargos EXCEPT ![cargoId].isPublic = isPublic,
                                         ![cargoId].authorizedViewer = authorizedViewer]
             /\ perms' = updatePrivacySettingsGrants(perms, cargos[cargoId], authorizedViewer)
             /\ log' = Append(log, <<"CargoPrivacyUpdated", cargoId, isPublic>>)
             /\ UNCHANGED <<ownerCargos, now, deterministic>>

(***************************************************************************)
(* authorizeViewer                                                         *)
(***************************************************************************)
authorizeViewerRequire(sender, cargoId) ==
    IF ~cargos[cargoId].exists THEN NotFound
    ELSE IF ~(cargos[cargoId].owner = sender) THEN OnlyOwner
    ELSE OK

\* authorizeViewerGrants under the address(0) test of updatePrivacySettings
authorizeViewerGrantsNonZero(acl, cargo, viewer) ==
    IF viewer # ZERO
    THEN Allow(Allow(Allow(acl, cargo.encryptedPriority, viewer),
                     cargo.encryptedIsFragile, viewer),
               cargo.encryptedValue, viewer)
    ELSE acl

\* authorizeViewerGrants allowing the viewer on the handles of every record
authorizeViewerGrantsEveryRecord(acl, cargo, viewer) ==
    acl \cup {<<h, viewer>> : h \in UNION {Handles(cargos[id]) :
                                   id \in {k \in CargoIds : cargos[k].exists}}}

\* three unconditional FHE.allow calls
authorizeViewerGrants(acl, cargo, viewer) ==
    Allow(Allow(Allow(acl, cargo.encryptedPriority, viewer),
                cargo.encryptedIsFragile, viewer),
          cargo.encryptedValue, viewer)

\* authorizeViewer writing the owner field instead of authorizedViewer
authorizeViewerAsOwner(sender, cargoId, viewer) ==
    LET err == authorizeViewerRequire(sender, cargoId)
    IN  IF err # OK
        THEN Revert
        ELSE /\ perms' = authorizeViewerGrants(perms, cargos[cargoId], viewer)
             /\ cargos' = [cargos EXCEPT ![cargoId].owner = viewer]
             /\ UNCHANGED <<ownerCargos, log, now, deterministic>>

\* authorizeViewer keeping a viewer that is already set
authorizeViewerKeepFirst(sender, cargoId, viewer) ==
    LET err == authorizeViewerRequire(sender, cargoId)
    IN  IF err # OK
        THEN Revert
        ELSE /\ perms' = authorizeViewerGrants(perms, cargos[cargoId], viewer)
             /\ cargos' = [cargos EXCEPT ![cargoId].authorizedViewer =
                                             IF @ = ZERO THEN viewer ELSE @]
             /\ UNCHANGED <<ownerCargos, log, now, deterministic>>

authorizeViewer(sender, cargoId, viewer) ==
    LET err == authorizeViewerRequire(sender, cargoId)
    IN  IF err # OK
        THEN Revert
        ELSE /\ perms' = authorizeViewerGrants(perms, cargos[cargoId], viewer)
             /\ cargos' = [cargos EXCEPT ![cargoId].authorizedViewer = viewer]
             /\ UNCHANGED <<ownerCargos, log, now, deterministic>>

(***************************************************************************)
(* View functions behind the owner / viewer / public check                 *)
(***************************************************************************)
getCargoId(sender, cargoId) ==
    IF ~cargos[cargoId].exists THEN Fail(NotFound)
    ELSE IF ~(\/ cargos[cargoId].owner = sender
              \/ cargos[cargoId].authorizedViewer = sender
              \/ cargos[cargoId].isPublic) THEN Fail(NotAuthorized)
    ELSE Return(cargos[cargoId].cargoId)

getCargoDestination(sender, cargoId) ==
    IF ~cargos[cargoId].exists THEN Fail(NotFound)
    ELSE IF ~(\/ cargos[cargoId].owner = sender
              \/ cargos[cargoId].authorizedViewer = sender
              \/ cargos[cargoId].isPublic) THEN Fail(NotAuthorized)
    ELSE Return(cargos[cargoId].destination)

getCargoStatus(sender, cargoId) ==
    IF ~cargos[cargoId].exists THEN Fail(NotFound)
    ELSE IF ~(\/ cargos[cargoId].owner = sender
              \/ cargos[cargoId].authorizedViewer = sender
              \/ cargos[cargoId].isPublic) THEN Fail(NotAuthorized)
    ELSE Return(cargos[cargoId].status)

\* getCargoLocation without the authorized-viewer disjunct
getCargoLocationNoViewer(sender, cargoId) ==
    IF ~cargos[cargoId].exists THEN Fail(NotFound)
    ELSE IF ~(\/ cargos[cargoId].owner = sender
              \/ cargos[cargoId].isPublic) THEN Fail(NotAuthorized)
    ELSE Return(cargos[cargoId].location)

getCargoLocation(sender, cargoId) ==
    IF ~cargos[cargoId].exists THEN Fail(NotFound)
    ELSE IF ~(\/ cargos[cargoId].owner = sender
              \/ cargos[cargoId].authorizedViewer = sender
              \/ cargos[cargoId].isPublic) THEN Fail(NotAuthorized)
    ELSE Return(cargos[cargoId].location)

getCargoOwner(sender, cargoId) ==
    IF ~cargos[cargoId].exists THEN Fail(NotFound)
    ELSE IF ~(\/ cargos[cargoId].owner = sender
              \/ cargos[cargoId].authorizedViewer = sender
              \/ cargos[cargoId].isPublic) THEN Fail(NotAuthorized)
    ELSE Return(cargos[cargoId].owner)

\* getCargoTimestamp without its first require
getCargoTimestampNoExists(sender, cargoId) ==
    IF ~(\/ cargos[cargoId].owner = sender
         \/ cargos[cargoId].authorizedViewer = sender
         \/ cargos[cargoId].isPublic) THEN Fail(NotAuthorized)
    ELSE Return(cargos[cargoId].timestamp)

getCargoTimestamp(sender, cargoId) ==
    IF ~cargos[cargoId].exists THEN Fail(NotFound)
    ELSE IF ~(\/ cargos[cargoId].owner = sender
              \/ cargos[cargoId].authorizedViewer = sender
              \/ cargos[cargoId].isPublic) THEN Fail(NotAuthorized)
    ELSE Return(cargos[cargoId].timestamp)

(***************************************************************************)
(* View functions without a caller check                                   *)
(***************************************************************************)
isCargoPublic(sender, cargoId) ==
    IF ~cargos[cargoId].exists THEN Fail(NotFound)
    ELSE Return(cargos[cargoId].isPublic)

getOwnerCargos(sender, owner) == Return(ownerCargos[owner])

\* getter the compiler generates for `mapping(string => Cargo) public cargos`:
\* returns every member of the struct stored under the key, set or not
cargosGetter(sender, cargoId) == Return(cargos[cargoId])

\* getter the compiler generates for `mapping(address => string[]) public
\* ownerCargos`: element `index` (from 0) of the owner's array
ownerCargosGetter(sender, owner, index) ==
    IF ~(index < Len(ownerCargos[owner])) THEN Fail(OutOfBounds)
    ELSE Return(ownerCargos[owner][index + 1])

(***************************************************************************)
(* View functions behind the isPublic check                                *)
(***************************************************************************)
getPublicCargoDestination(sender, cargoId) ==
    IF ~cargos[cargoId].exists THEN Fail(NotFound)
    ELSE IF ~cargos[cargoId].isPublic THEN Fail(IsPrivate)
    ELSE Return(cargos[cargoId].destination)

\* getPublicCargoStatus returning the location member
getPublicCargoStatusOfLocation(sender, cargoId) ==
    IF ~cargos[cargoId].exists THEN Fail(NotFound)
    ELSE IF ~cargos[cargoId].isPublic THEN Fail(IsPrivate)
    ELSE Return(cargos[cargoId].location)

getPublicCargoStatus(sender, cargoId) ==
    IF ~cargos[cargoId].exists THEN Fail(NotFound)
    ELSE IF ~cargos[cargoId].isPublic THEN Fail(IsPrivate)
    ELSE Return(cargos[cargoId].status)

getPublicCargoLocation(sender, cargoId) ==
    IF ~cargos[cargoId].exists THEN Fail(NotFound)
    ELSE IF ~cargos[cargoId].isPublic THEN Fail(IsPrivate)
    ELSE Return(cargos[cargoId].location)

\* getPublicCargoOwner behind the owner / viewer / public check
getPublicCargoOwnerStandard(sender, cargoId) ==
    IF ~cargos[cargoId].exists THEN Fail(NotFound)
    ELSE IF ~(\/ cargos[cargoId].owner = sender
              \/ cargos[cargoId].authorizedViewer = sender
              \/ cargos[cargoId].isPublic) THEN Fail(IsPrivate)
    ELSE Return(cargos[cargoId].owner)

getPublicCargoOwner(sender, cargoId) ==
    IF ~cargos[cargoId].exists THEN Fail(NotFound)
    ELSE IF ~cargos[cargoId].isPublic THEN Fail(IsPrivate)
    ELSE Return(cargos[cargoId].owner)

(***************************************************************************)
(* View functions returning a ciphertext handle                            *)
(***************************************************************************)
\* getEncryptedPriority asking the ACL instead of the authorizedViewer field
getEncryptedPriorityByAcl(sender, cargoId) ==
    IF ~cargos[cargoId].exists THEN Fail(NotFound)
    ELSE IF ~(\/ cargos[cargoId].owner = sender
              \/ isAllowed(cargos[cargoId].encryptedPriority, sender))
    THEN Fail(NotAuthorized)
    ELSE Return(cargos[cargoId].encryptedPriority)

getEncryptedPriority(sender, cargoId) ==
    IF ~cargos[cargoId].exists THEN Fail(NotFound)
    ELSE IF ~(\/ cargos[cargoId].owner = sender
              \/ cargos[cargoId].authorizedViewer = sender) THEN Fail(NotAuthorized)
    ELSE Return(cargos[cargoId].encryptedPriority)

\* getEncryptedIsFragile behind the check of the plaintext getters
getEncryptedIsFragilePublic(sender, cargoId) ==
    IF ~cargos[cargoId].exists THEN Fail(NotFound)
    ELSE IF ~(\/ cargos[cargoId].owner = sender
              \/ cargos[cargoId].authorizedViewer = sender
              \/ cargos[cargoId].isPublic) THEN Fail(NotAuthorized)
    ELSE Return(cargos[cargoId].encryptedIsFragile)

getEncryptedIsFragile(sender, cargoId) ==
    IF ~cargos[cargoId].exists THEN Fail(NotFound)
    ELSE IF ~(\/ cargos[cargoId].owner = sender
              \/ cargos[cargoId].authorizedViewer = sender) THEN Fail(NotAuthorized)
    ELSE Return(cargos[cargoId].encryptedIsFragile)

\* getEncryptedValue with the viewer alone in its second require
getEncryptedValueViewerOnly(sender, cargoId) ==
    IF ~cargos[cargoId].exists THEN Fail(NotFound)
    ELSE IF ~(cargos[cargoId].authorizedViewer = sender) THEN Fail(NotAuthorized)
    ELSE Return(cargos[cargoId].encryptedValue)

getEncryptedValue(sender, cargoId) ==
    IF ~cargos[cargoId].exists THEN Fail(NotFound)
    ELSE IF ~(\/ cargos[cargoId].owner = sender
              \/ cargos[cargoId].authorizedViewer = sender) THEN Fail(NotAuthorized)
    ELSE Return(cargos[cargoId].encryptedValue)

(***************************************************************************)
(* The chain: a new block with a later timestamp                           *)
(***************************************************************************)
NextBlock ==
    /\ now < MaxTime
    /\ now' = now + 1
    /\ UNCHANGED <<cargos, ownerCargos, perms, log, deterministic>>
    /\ UNCHANGED <<tutorialVars, frontendVars>>

(***************************************************************************)
(* Next-state relation: transactions from the accounts in Senders; the     *)
(* model follows a run up to MaxLog transactions that emit an event        *)
(***************************************************************************)
CallCreateCargo ==
    \E sender \in Senders, cargoId \in CargoIds, args \in CreateArgs,
       isFragile \in IsFragileArgs, cargoValue \in ValueArgs :
        /\ Len(log) < MaxLog
        /\ createCargo(sender, cargoId, args[1], args[2], isFragile, cargoValue)
        /\ UNCHANGED <<tutorialVars, frontendVars>>

CallUpdateStatus ==
    \E sender \in Senders, cargoId \in CargoIds \ {""}, args \in UpdateArgs :
        /\ Len(log) < MaxLog
        /\ updateStatus(sender, cargoId, args[1], args[2])
        /\ UNCHANGED <<tutorialVars, frontendVars>>

CallUpdatePrivacySettings ==
    \E sender \in Senders, cargoId \in CargoIds \ {""}, isPublic \in BOOLEAN,
       authorizedViewer \in Addresses :
        /\ Len(log) < MaxLog
        /\ updatePrivacySettings(sender, cargoId, isPublic, authorizedViewer)
        /\ UNCHANGED <<tutorialVars, frontendVars>>

CallAuthorizeViewer ==
    \E sender \in Senders, cargoId \in CargoIds \ {""}, viewer \in Addresses :
        /\ authorizeViewer(sender, cargoId, viewer)
        /\ UNCHANGED <<tutorialVars, frontendVars>>

Next ==
    \/ CallCreateCargo
    \/ CallUpdateStatus
    \/ CallUpdatePrivacySettings
    \/ CallAuthorizeViewer
    \/ NextBlock

Spec == Init /\ [][Next]_vars

(***************************************************************************)
(* Properties                                                              *)
(***************************************************************************)
\* what a transaction can write: records, owner index, ACL, event log
contractState == <<cargos, ownerCargos, perms, log>>

\* a createCargo call that passes its requires and is carried out
CreateSucceeds(sender, cargoId, destination, priority, isFragile, cargoValue) ==
    /\ createCargoRequire(cargoId, destination, priority) = OK
    /\ createCargo(sender, cargoId, destination, priority, isFragile, cargoValue)

\* C1: once a record exists under an id, createCargo with that id, by any
\* sender and with any arguments, reverts with "Cargo already exists" and
\* leaves the records, every owner's id list, the ACL and the event log as
\* they were.
C1_DuplicateCreateRejected ==
    \A sender \in Senders, cargoId \in CargoIds, destination \in DestinationArgs,
       priority \in PriorityArgs, isFragile \in IsFragileArgs, cargoValue \in ValueArgs :
        cargos[cargoId].exists =>
          /\ createCargoRequire(cargoId, destination, priority) = AlreadyExists
          /\ ~ENABLED (/\ createCargo(sender, cargoId, destination, priority,
                                       isFragile, cargoValue)
                       /\ contractState' # contractState)

\* an existing record, already updated by its owner, on which a second create
\* (by the owner or by another sender) is refused
C1_Witness ==
    \E cargoId \in CargoIds :
        /\ cargos[cargoId].exists
        /\ cargos[cargoId].authorizedViewer \in Senders \ {cargos[cargoId].owner}
        /\ Len(ownerCargos[cargos[cargoId].owner]) = 1
        /\ Len(log) = MaxLog - 1
        /\ \A destination \in DestinationArgs :
             createCargoRequire(cargoId, destination, MaxPriority + 1) = AlreadyExists

\* C2: on an existing record, updateStatus, updatePrivacySettings and
\* authorizeViewer sent by anyone but the owner (the authorized viewer, or
\* anyone when the record is public, included) revert with "Only cargo owner
\* allowed" and leave records, owner index, ACL and event log as they were.
C2_NonOwnerWritesRejected ==
    \A sender \in Senders, cargoId \in CargoIds :
        (cargos[cargoId].exists /\ sender # cargos[cargoId].owner) =>
          /\ updateStatusRequire(sender, cargoId) = OnlyOwner
          /\ updatePrivacySettingsRequire(sender, cargoId) = OnlyOwner
          /\ authorizeViewerRequire(sender, cargoId) = OnlyOwner
          /\ \A args \in UpdateArgs :
               ~ENABLED (/\ updateStatus(sender, cargoId, args[1], args[2])
                         /\ contractState' # contractState)
          /\ \A viewer \in Addresses :
               /\ \A isPublic \in BOOLEAN :
                    ~ENABLED (/\ updatePrivacySettings(sender, cargoId, isPublic, viewer)
                              /\ contractState' # contractState)
               /\ ~ENABLED (/\ authorizeViewer(sender, cargoId, viewer)
                            /\ contractState' # contractState)

\* a public record whose authorized viewer, not the owner, is refused all three
C2_Witness ==
    \E cargoId \in CargoIds, sender \in Senders :
        /\ cargos[cargoId].exists
        /\ cargos[cargoId].isPublic
        /\ cargos[cargoId].authorizedViewer = sender
        /\ cargos[cargoId].owner # sender
        /\ updateStatusRequire(sender, cargoId) = OnlyOwner
        /\ updatePrivacySettingsRequire(sender, cargoId) = OnlyOwner
        /\ authorizeViewerRequire(sender, cargoId) = OnlyOwner

\* C3: the three handle getters succeed for a caller exactly when the record
\* exists and the caller is its owner or its current authorizedViewer,
\* whatever isPublic is.
C3_EncryptedGate ==
    \A sender \in Callers, cargoId \in CargoIds :
        LET pass == /\ cargos[cargoId].exists
                    /\ \/ sender = cargos[cargoId].owner
                       \/ sender = cargos[cargoId].authorizedViewer
        IN  /\ (getEncryptedPriority(sender, cargoId).result = OK) = pass
            /\ (getEncryptedIsFragile(sender, cargoId).result = OK) = pass
            /\ (getEncryptedValue(sender, cargoId).result = OK) = pass

\* a public record: its viewer gets the handles, an unrelated caller does not
C3_Witness ==
    \E cargoId \in CargoIds, viewer \in Senders, other \in Callers :
        /\ cargos[cargoId].exists
        /\ cargos[cargoId].isPublic
        /\ cargos[cargoId].authorizedViewer = viewer
        /\ cargos[cargoId].owner \notin {viewer, other}
        /\ other # viewer
        /\ getEncryptedPriority(viewer, cargoId).result = OK
        /\ getEncryptedIsFragile(viewer, cargoId).result = OK
        /\ getEncryptedValue(viewer, cargoId).result = OK
        /\ getEncryptedPriority(other, cargoId).result = NotAuthorized
        /\ getEncryptedIsFragile(other, cargoId).result = NotAuthorized
        /\ getEncryptedValue(other, cargoId).result = NotAuthorized

\* outcome g of a getter of `field` behind a check that gives `pass`
Guarded(g, field, pass) ==
    /\ (g.result = OK) = pass
    /\ pass => g.ret = field

\* outcome g is the value v returned
Returns(g, v) == g.result = OK /\ g.ret = v

C4_GateAndValue ==
    \A sender \in Callers, cargoId \in CargoIds :
        LET c == cargos[cargoId]
            pass == /\ c.exists
                    /\ \/ sender = c.owner
                       \/ sender = c.authorizedViewer
                       \/ c.isPublic
        IN  /\ Guarded(getCargoId(sender, cargoId), c.cargoId, pass)
            /\ Guarded(getCargoDestination(sender, cargoId), c.destination, pass)
            /\ Guarded(getCargoStatus(sender, cargoId), c.status, pass)
            /\ Guarded(getCargoLocation(sender, cargoId), c.location, pass)
            /\ Guarded(getCargoOwner(sender, cargoId), c.owner, pass)
            /\ Guarded(getCargoTimestamp(sender, cargoId), c.timestamp, pass)

\* C4: each of getCargoId, getCargoDestination, getCargoStatus,
\* getCargoLocation, getCargoOwner, getCargoTimestamp succeeds for a caller
\* exactly when the record exists and the caller is the owner, or the current
\* authorizedViewer, or isPublic is set, and then returns the stored field;
\* right after createCargo the owner reads status "Created" and every other
\* account is refused (msg.sender address(0) is not an account: it equals the
\* unset authorizedViewer and falls under the viewer disjunct above).
C4_StandardGate ==
    /\ []C4_GateAndValue
    /\ [][\A cargoId \in CargoIds :
            (~cargos[cargoId].exists /\ cargos'[cargoId].exists) =>
              \A sender \in Callers \ {ZERO} :
                 IF sender = cargos'[cargoId].owner
                 THEN Returns(getCargoStatus(sender, cargoId), "Created")'
                 ELSE getCargoStatus(sender, cargoId)'.result = NotAuthorized]_vars

\* a private record read by its viewer after a status update, an unrelated
\* caller being refused
C4_Witness ==
    \E cargoId \in CargoIds, viewer \in Senders, other \in Callers :
        /\ cargos[cargoId].exists
        /\ ~cargos[cargoId].isPublic
        /\ cargos[cargoId].authorizedViewer = viewer
        /\ cargos[cargoId].owner \notin {viewer, other}
        /\ other # viewer
        /\ Returns(getCargoStatus(viewer, cargoId), "InTransit")
        /\ Returns(getCargoLocation(viewer, cargoId), "Lyon")
        /\ Returns(getCargoTimestamp(cargos[cargoId].owner, cargoId), MaxTime)
        /\ getCargoLocation(other, cargoId).result = NotAuthorized

\* C5: each of getPublicCargoDestination, getPublicCargoStatus,
\* getPublicCargoLocation, getPublicCargoOwner succeeds exactly when the
\* record exists and isPublic is set, whoever calls, and then returns the
\* stored field.
C5_PublicGate ==
    \A sender \in Callers, cargoId \in CargoIds :
        LET pass == cargos[cargoId].exists /\ cargos[cargoId].isPublic
            d == getPublicCargoDestination(sender, cargoId)
            s == getPublicCargoStatus(sender, cargoId)
            l == getPublicCargoLocation(sender, cargoId)
            o == getPublicCargoOwner(sender, cargoId)
        IN  /\ Guarded(d, cargos[cargoId].destination, pass)
            /\ Guarded(s, cargos[cargoId].status, pass)
            /\ Guarded(l, cargos[cargoId].location, pass)
            /\ Guarded(o, cargos[cargoId].owner, pass)

\* a public record, updated by its owner, read by a caller that is neither
\* its owner nor its viewer, next to an id without a record
C5_Witness ==
    \E public \in CargoIds, absent \in CargoIds, other \in Callers :
        /\ cargos[public].exists /\ cargos[public].isPublic
        /\ cargos[public].authorizedViewer \in Senders \ {cargos[public].owner}
        /\ other \notin {cargos[public].owner, cargos[public].authorizedViewer}
        /\ Returns(getPublicCargoDestination(other, public), "Paris")
        /\ Returns(getPublicCargoStatus(other, public), "Created")
        /\ Returns(getPublicCargoLocation(other, public), "Origin")
        /\ Returns(getPublicCargoOwner(other, public), cargos[public].owner)
        /\ getPublicCargoOwner(other, absent).result = NotFound

\* sender passes the check of a handle getter / of a plaintext getter
PassesEncryptedGate(sender, cargoId) ==
    \/ getEncryptedPriority(sender, cargoId).result = OK
    \/ getEncryptedIsFragile(sender, cargoId).result = OK
    \/ getEncryptedValue(sender, cargoId).result = OK

PassesStandardGate(sender, cargoId) ==
    \/ getCargoId(sender, cargoId).result = OK
    \/ getCargoDestination(sender, cargoId).result = OK
    \/ getCargoStatus(sender, cargoId).result = OK
    \/ getCargoLocation(sender, cargoId).result = OK
    \/ getCargoOwner(sender, cargoId).result = OK
    \/ getCargoTimestamp(sender, cargoId).result = OK

\* C6 as stated: a viewer that the owner replaces by a different address
\* passes, unless it is the owner, neither the check of the plaintext getters
\* nor the check of the handle getters afterwards.
C6_OldViewerLosesBothGates ==
    [][\A cargoId \in CargoIds, v \in Senders :
         (/\ cargos[cargoId].exists
          /\ cargos[cargoId].authorizedViewer = v
          /\ cargos[cargoId].owner # v
          /\ cargos'[cargoId].authorizedViewer # v) =>
            /\ ~PassesEncryptedGate(v, cargoId)'
            /\ ~PassesStandardGate(v, cargoId)']_vars

\* an address that is neither owner nor current authorizedViewer of an
\* existing record passes no handle getter, and a plaintext getter only if the
\* record is public
C6_NonViewerRefused ==
    \A cargoId \in CargoIds, v \in Callers :
        (/\ cargos[cargoId].exists
         /\ cargos[cargoId].owner # v
         /\ cargos[cargoId].authorizedViewer # v) =>
           /\ ~PassesEncryptedGate(v, cargoId)
           /\ PassesStandardGate(v, cargoId) => cargos[cargoId].isPublic

\* C6 amended: a viewer that the owner replaces by a different address
\* passes, unless it is the owner, no handle getter after that step nor in
\* any later state in which it is not the authorizedViewer again, and passes
\* a plaintext getter there only if the record is public.
C6_OldViewerLosesAccess ==
    /\ []C6_NonViewerRefused
    /\ [][\A cargoId \in CargoIds, v \in Senders :
            (/\ cargos[cargoId].exists
             /\ cargos[cargoId].authorizedViewer = v
             /\ cargos[cargoId].owner # v
             /\ cargos'[cargoId].authorizedViewer # v) =>
               /\ ~PassesEncryptedGate(v, cargoId)'
               /\ PassesStandardGate(v, cargoId)' => cargos'[cargoId].isPublic]_vars

\* a private record whose former viewer, still holding the ACL permission, is
\* refused by both kinds of getter while the new viewer is served
C6_Witness ==
    \E cargoId \in CargoIds, old \in Senders, new \in Senders :
        /\ ~deterministic
        /\ cargos[cargoId].exists /\ ~cargos[cargoId].isPublic
        /\ cargos[cargoId].authorizedViewer = new
        /\ old \notin {new, cargos[cargoId].owner}
        /\ isAllowed(cargos[cargoId].encryptedValue, old)
        /\ ~PassesEncryptedGate(old, cargoId)
        /\ ~PassesStandardGate(old, cargoId)
        /\ PassesEncryptedGate(new, cargoId)

\* C7 as stated: for a private record, a caller that is neither its owner nor
\* its current authorizedViewer gets no field of the record and no id list of
\* its owner from any externally callable view function.
C7_EveryReadIsGated ==
    \A sender \in Callers, cargoId \in CargoIds :
        LET c == cargos[cargoId]
        IN  (/\ c.exists /\ ~c.isPublic
             /\ sender # c.owner /\ sender # c.authorizedViewer) =>
              /\ ~PassesStandardGate(sender, cargoId)
              /\ ~PassesEncryptedGate(sender, cargoId)
              /\ getPublicCargoDestination(sender, cargoId).result # OK
              /\ getPublicCargoStatus(sender, cargoId).result # OK
              /\ getPublicCargoLocation(sender, cargoId).result # OK
              /\ getPublicCargoOwner(sender, cargoId).result # OK
              /\ isCargoPublic(sender, cargoId).result # OK
              /\ getOwnerCargos(sender, c.owner).result # OK
              /\ cargosGetter(sender, cargoId).result # OK
              /\ \A index \in 0..Len(ownerCargos[c.owner]) :
                   ownerCargosGetter(sender, c.owner, index).result # OK

\* the ACL pairs of a record's three handles
PermsOf(acl, c) == {p \in acl : p[1] \in Handles(c)}

C9_OwnerIsCreatorForever ==
    [][\A cargoId \in CargoIds :
         /\ cargos[cargoId].exists =>
              /\ cargos'[cargoId].exists
              /\ cargos'[cargoId].owner = cargos[cargoId].owner
         /\ (~cargos[cargoId].exists /\ cargos'[cargoId].exists) =>
              /\ ownerCargos'[cargos'[cargoId].owner]
                   = Append(ownerCargos[cargos'[cargoId].owner], cargoId)
              /\ \A sender \in Senders, destination \in DestinationArgs,
                    priority \in PriorityArgs, isFragile \in IsFragileArgs,
                    cargoValue \in ValueArgs :
                   createCargo(sender, cargoId, destination, priority,
                               isFragile, cargoValue)
                     => cargos'[cargoId].owner = sender]_vars

\* a record that went through a viewer designation to another account and a
\* switch to public, still listed under the account that created it
C9_Witness ==
    \E cargoId \in CargoIds :
        /\ cargos[cargoId].exists
        /\ cargos[cargoId].isPublic
        /\ cargos[cargoId].authorizedViewer \in Senders \ {cargos[cargoId].owner}
        /\ ownerCargos[cargos[cargoId].owner] = <<cargoId>>
        /\ log[1] = <<"CargoCreated", cargoId, cargos[cargoId].owner>>

\* C10: the three handles of a record are set by the createCargo that stores
\* it and are the same in every later state.
C10_HandlesNeverReassigned ==
    [][\A cargoId \in CargoIds :
         /\ cargos[cargoId].exists =>
              /\ cargos'[cargoId].encryptedPriority = cargos[cargoId].encryptedPriority
              /\ cargos'[cargoId].encryptedIsFragile = cargos[cargoId].encryptedIsFragile
              /\ cargos'[cargoId].encryptedValue = cargos[cargoId].encryptedValue
         /\ (~cargos[cargoId].exists /\ cargos'[cargoId].exists) =>
              /\ cargos'[cargoId].encryptedPriority.type = "euint8"
              /\ cargos'[cargoId].encryptedIsFragile.type = "ebool"
              /\ cargos'[cargoId].encryptedValue.type = "euint64"]_vars

\* a record whose status was updated at a later block and whose viewer was
\* designated, still carrying the handles of its creation
C10_Witness ==
    \E cargoId \in CargoIds :
        /\ cargos[cargoId].exists
        /\ cargos[cargoId].status = "InTransit"
        /\ cargos[cargoId].timestamp = MaxTime
        /\ cargos[cargoId].authorizedViewer \in Senders \ {cargos[cargoId].owner}
        /\ cargos[cargoId].encryptedPriority = asEuint8(MaxPriority, cargoId)
        /\ cargos[cargoId].encryptedIsFragile = asEbool(TRUE, cargoId)
        /\ cargos[cargoId].encryptedValue = asEuint64(500, cargoId)

\* number of CargoCreated events emitted for cargoId
CreatedCount(cargoId) ==
    Cardinality({i \in 1..Len(log) :
                   log[i][1] = "CargoCreated" /\ log[i][2] = cargoId})

\* number of entries of the owners' id lists that hold cargoId
IndexedCount(cargoId) ==
    Cardinality({p \in {<<a, i>> : a \in Addresses, i \in 1..MaxLog} :
                   p[2] <= Len(ownerCargos[p[1]]) /\ ownerCargos[p[1]][p[2]] = cargoId})

C11_OneCreatePerRecord ==
    \A cargoId \in CargoIds :
        /\ CreatedCount(cargoId) = IF cargos[cargoId].exists THEN 1 ELSE 0
        /\ IndexedCount(cargoId) = IF cargos[cargoId].exists THEN 1 ELSE 0

\* C11: no step takes the exists flag of a record back, and in every state
\* the createCargo calls that succeeded so far (one CargoCreated event and one
\* owner-index entry each) number exactly one for an id that has a record and
\* none for an id that has not.
C11_RecordNeverRemoved ==
    /\ []C11_OneCreatePerRecord
    /\ [][\A cargoId \in CargoIds :
            cargos[cargoId].exists => cargos'[cargoId].exists]_vars

\* both ids created, the first record having received a viewer since: each
\* still exists and counts one creation
C11_Witness ==
    /\ cargos["C1"].exists /\ cargos["C2"].exists
    /\ log[1][2] # log[2][2]
    /\ cargos[log[1][2]].authorizedViewer # ZERO
    /\ CreatedCount("C1") = 1 /\ CreatedCount("C2") = 1

\* the accounts the ACL acl lets read handle h
Readers(acl, h) == {p[2] : p \in {q \in acl : q[1] = h}}

\* the record c is what the claim says createCargo stores for these arguments
StoredAsCreated(c, sender, cargoId, destination, priority, isFragile, cargoValue) ==
    /\ c.cargoId = cargoId /\ c.destination = destination
    /\ c.status = "Created" /\ c.location = "Origin"
    /\ c.isPublic = FALSE /\ c.authorizedViewer = ZERO
    /\ c.owner = sender /\ c.exists = TRUE
    /\ c.encryptedPriority.type = "euint8" /\ c.encryptedPriority.pt = priority
    /\ c.encryptedIsFragile.type = "ebool"
    /\ c.encryptedIsFragile.pt = (IF isFragile THEN 1 ELSE 0)
    /\ c.encryptedValue.type = "euint64" /\ c.encryptedValue.pt = cargoValue

\* C12 as stated: a createCargo that succeeds stores the record described,
\* with three handles that no record held and no ACL pair named before, and
\* after it the contract and the sender, and nobody else, are allowed on each.
C12_FreshHandlesForCreatorOnly ==
    \A sender \in Senders, cargoId \in CargoIds, priority \in {0, MaxPriority},
       isFragile \in BOOLEAN, cargoValue \in ValueArgs :
        ~ENABLED (/\ CreateSucceeds(sender, cargoId, "Paris", priority,
                                    isFragile, cargoValue)
                  /\ ~(/\ StoredAsCreated(cargos'[cargoId], sender, cargoId, "Paris",
                                          priority, isFragile, cargoValue)
                       /\ \A h \in Handles(cargos'[cargoId]) :
                            /\ \A other \in CargoIds : h \notin Handles(cargos[other])
                            /\ Readers(perms, h) = {}
                            /\ Readers(perms', h) = {Contract, sender}))

\* C12 amended: a createCargo that succeeds stores the record described, with
\* one handle per input of the type and for the plaintext of that input, and
\* adds to the ACL exactly the pairs that allow the contract and the sender
\* on each of the three handles; the ACL pairs of before stay.
C12_CreateStoresAndGrants ==
    \A sender \in Senders, cargoId \in CargoIds, priority \in {0, MaxPriority},
       isFragile \in BOOLEAN, cargoValue \in ValueArgs :
        ~ENABLED (/\ CreateSucceeds(sender, cargoId, "Paris", priority,
                                    isFragile, cargoValue)
                  /\ ~(/\ StoredAsCreated(cargos'[cargoId], sender, cargoId, "Paris",
                                          priority, isFragile, cargoValue)
                       /\ perms' = perms \cup
                            {<<h, a>> : h \in Handles(cargos'[cargoId]),
                                        a \in {Contract, sender}}))

\* two records created by two accounts from the same inputs, the library
\* giving one handle per plaintext: each creator is allowed on the handles of
\* the other's record
C12_Witness ==
    /\ deterministic
    /\ cargos["C1"].exists /\ cargos["C2"].exists
    /\ cargos["C1"].owner # cargos["C2"].owner
    /\ StoredAsCreated(cargos["C2"], cargos["C2"].owner, "C2", "Paris",
                       MaxPriority, TRUE, 500)
    /\ Handles(cargos["C1"]) = Handles(cargos["C2"])
    /\ \A h \in Handles(cargos["C2"]) :
         Readers(perms, h) = {Contract, cargos["C1"].owner, cargos["C2"].owner}

\* the require messages of createCargo about its arguments
InvalidArgument == {EmptyId, EmptyDestination, BadPriority}

\* uint8 priorities around the limit, and the largest
PriorityRange == 0..(MaxPriority + 1) \cup {255}

OwnerCalls(cargoId) ==
    LET owner == cargos[cargoId].owner
    IN  \/ \E id \in CargoIds, args \in CreateArgs, isFragile \in IsFragileArgs,
              cargoValue \in ValueArgs :
             createCargo(owner, id, args[1], args[2], isFragile, cargoValue)
        \/ \E args \in UpdateArgs : updateStatus(owner, cargoId, args[1], args[2])
        \/ \E isPublic \in BOOLEAN, viewer \in Addresses :
             updatePrivacySettings(owner, cargoId, isPublic, viewer)
        \/ \E viewer \in Addresses : authorizeViewer(owner, cargoId, viewer)

\* C14 as stated: for each of destination, status and location the owner of a
\* record has a call after which the field differs from what createCargo
\* stored.
C14_OwnerCanChangeEachField ==
    \A cargoId \in CargoIds :
        cargos[cargoId].exists =>
          /\ ENABLED (/\ OwnerCalls(cargoId)
                      /\ cargos'[cargoId].destination # cargos[cargoId].destination)
          /\ ENABLED (OwnerCalls(cargoId) /\ cargos'[cargoId].status # "Created")
          /\ ENABLED (OwnerCalls(cargoId) /\ cargos'[cargoId].location # "Origin")

\* C14 amended: the owner of a record has a call (updateStatus) after which
\* status and location differ from what createCargo stored, and no call by
\* anyone changes the destination of an existing record.
C14_StatusAndLocationMutable ==
    /\ [](\A cargoId \in CargoIds :
            cargos[cargoId].exists =>
              /\ ENABLED (OwnerCalls(cargoId) /\ cargos'[cargoId].status # "Created")
              /\ ENABLED (OwnerCalls(cargoId) /\ cargos'[cargoId].location # "Origin"))
    /\ [][\A cargoId \in CargoIds :
            cargos[cargoId].exists =>
              cargos'[cargoId].destination = cargos[cargoId].destination]_vars

\* a record whose owner has changed status and location, with the destination
\* of its creation
C14_Witness ==
    \E cargoId \in CargoIds :
        /\ cargos[cargoId].exists
        /\ cargos[cargoId].status = "InTransit"
        /\ cargos[cargoId].location = "Lyon"
        /\ cargos[cargoId].destination = "Paris"
        /\ log[Len(log)] = <<"CargoStatusUpdated", cargoId, "InTransit", "Lyon">>

\* an updatePrivacySettings call that passes its requires and is carried out
UpdatePrivacySucceeds(sender, cargoId, isPublic, authorizedViewer) ==
    /\ updatePrivacySettingsRequire(sender, cargoId) = OK
    /\ updatePrivacySettings(sender, cargoId, isPublic, authorizedViewer)

\* the condition of C15 on one state
C15_UpdatePrivacyEffectInState ==
    \A cargoId \in CargoIds, isPublic \in BOOLEAN, viewer \in Addresses :
        cargos[cargoId].exists =>
          ~ENABLED (/\ UpdatePrivacySucceeds(cargos[cargoId].owner, cargoId,
                                             isPublic, viewer)
                    /\ ~(/\ cargos'[cargoId] =
                              [cargos[cargoId] EXCEPT !.isPublic = isPublic,
                                                      !.authorizedViewer = viewer]
                         /\ perms' = perms \cup
                              (IF viewer # ZERO
                               THEN {<<h, viewer>> : h \in Handles(cargos[cargoId])}
                               ELSE {})))

\* C15: an updatePrivacySettings by the owner that succeeds leaves the record
\* with isPublic and authorizedViewer equal to the arguments (address(0)
\* included, which clears the viewer) and every other member as it was, and
\* leaves the ACL with the viewer allowed on the three handles in addition
\* when the viewer is not address(0), and as it was when it is.
\* (in every reachable state)
C15_UpdatePrivacyEffect == []C15_UpdatePrivacyEffectInState

\* a record made public with address(0) as viewer after another account had
\* been viewer: the viewer is cleared, address(0) has no ACL pair, the rest of
\* the record is as created
C15_Witness ==
    \E cargoId \in CargoIds, old \in Senders :
        /\ Len(log) = 2
        /\ log[2] = <<"CargoPrivacyUpdated", cargoId, TRUE>>
        /\ cargos[cargoId].isPublic
        /\ cargos[cargoId].authorizedViewer = ZERO
        /\ old # cargos[cargoId].owner
        /\ \A h \in Handles(cargos[cargoId]) : isAllowed(h, old) /\ ~isAllowed(h, ZERO)
        /\ cargos[cargoId].status = "Created"
        /\ cargos[cargoId].destination = "Paris"

\* the condition of C16 on one state
C16_UpdatePrivacyIdempotentInState ==
    \A cargoId \in CargoIds, isPublic \in BOOLEAN, viewer \in Addresses :
        LET owner == cargos[cargoId].owner
        IN  cargos[cargoId].exists =>
              /\ ~ENABLED (/\ UpdatePrivacySucceeds(owner, cargoId, isPublic, viewer)
                           /\ ~(/\ updatePrivacySettingsRequire(owner, cargoId)' = OK
                                /\ cargos'[cargoId].isPublic = isPublic
                                /\ cargos'[cargoId].authorizedViewer = viewer
                                /\ updatePrivacySettingsGrants(perms, cargos[cargoId],
                                                               viewer)' = perms'))
              /\ (/\ cargos[cargoId].isPublic = isPublic
                  /\ cargos[cargoId].authorizedViewer = viewer
                  /\ viewer # ZERO =>
                       \A h \in Handles(cargos[cargoId]) : isAllowed(h, viewer)) =>
                   /\ ~ENABLED (/\ UpdatePrivacySucceeds(owner, cargoId, isPublic, viewer)
                                /\ (cargos' # cargos \/ perms' # perms))
                   /\ ENABLED UpdatePrivacySucceeds(owner, cargoId, isPublic, viewer)

\* C16: after an updatePrivacySettings(cargoId, isPublic, viewer) that
\* succeeds, the same call passes its requires again, finds isPublic and
\* authorizedViewer already equal to its arguments and every ACL pair it
\* grants already present; and on a record in that condition the call leaves
\* the records and the ACL exactly as they are.
\* (in every reachable state)
C16_UpdatePrivacyIdempotent == []C16_UpdatePrivacyIdempotentInState

\* a record just made public with a viewer by updatePrivacySettings: the
\* owner still passes the requires, the viewer is allowed on the three handles
C16_Witness ==
    \E cargoId \in CargoIds, viewer \in Senders :
        /\ Len(log) = 2
        /\ log[2] = <<"CargoPrivacyUpdated", cargoId, TRUE>>
        /\ cargos[cargoId].isPublic
        /\ cargos[cargoId].authorizedViewer = viewer
        /\ viewer # cargos[cargoId].owner
        /\ updatePrivacySettingsRequire(cargos[cargoId].owner, cargoId) = OK
        /\ updatePrivacySettingsGrants(perms, cargos[cargoId], viewer) = perms

\* an authorizeViewer call that passes its requires and is carried out
AuthorizeSucceeds(sender, cargoId, viewer) ==
    /\ authorizeViewerRequire(sender, cargoId) = OK
    /\ authorizeViewer(sender, cargoId, viewer)

\* sender is served by every handle getter / by every plaintext getter
ServedByEncryptedGetters(sender, cargoId) ==
    /\ getEncryptedPriority(sender, cargoId).result = OK
    /\ getEncryptedIsFragile(sender, cargoId).result = OK
    /\ getEncryptedValue(sender, cargoId).result = OK

ServedByStandardGetters(sender, cargoId) ==
    /\ getCargoId(sender, cargoId).result = OK
    /\ getCargoDestination(sender, cargoId).result = OK
    /\ getCargoStatus(sender, cargoId).result = OK
    /\ getCargoLocation(sender, cargoId).result = OK
    /\ getCargoOwner(sender, cargoId).result = OK
    /\ getCargoTimestamp(sender, cargoId).result = OK

\* the condition of C17 on one state
C17_AuthorizeViewerEffectInState ==
    \A cargoId \in CargoIds, viewer \in Addresses :
        LET owner == cargos[cargoId].owner
        IN  cargos[cargoId].exists =>
              /\ ENABLED AuthorizeSucceeds(owner, cargoId, viewer)
              /\ ~ENABLED (/\ AuthorizeSucceeds(owner, cargoId, viewer)
                           /\ ~(/\ cargos'[cargoId] =
                                     [cargos[cargoId] EXCEPT !.authorizedViewer = viewer]
                                /\ \A h \in Handles(cargos[cargoId]) :
                                     <<h, viewer>> \in perms'
                                /\ ServedByEncryptedGetters(viewer, cargoId)'
                                /\ ServedByStandardGetters(viewer, cargoId)'))

\* C17: the owner's authorizeViewer(cargoId, viewer) on an existing record
\* succeeds, and after it the viewer is allowed on the record's three handles,
\* authorizedViewer is the viewer and every other member of the record is as
\* it was, and the viewer is served by the three handle getters and the six
\* plaintext getters.
\* (in every reachable state)
C17_AuthorizeViewerEffect == []C17_AuthorizeViewerEffectInState

\* a private record whose viewer was designated by authorizeViewer (no event
\* but those of creation): the viewer is allowed on the handles and served
C17_Witness ==
    \E cargoId \in CargoIds, viewer \in Senders :
        /\ cargos[cargoId].exists /\ ~cargos[cargoId].isPublic
        /\ cargos[cargoId].authorizedViewer = viewer
        /\ viewer # cargos[cargoId].owner
        /\ \A i \in 1..Len(log) : log[i][1] = "CargoCreated"
        /\ \A h \in Handles(cargos[cargoId]) : isAllowed(h, viewer)
        /\ ServedByEncryptedGetters(viewer, cargoId)
        /\ ServedByStandardGetters(viewer, cargoId)
        /\ cargos[cargoId].status = "Created"

\* an updateStatus call that passes its requires and is carried out
UpdateStatusSucceeds(sender, cargoId, status, location) ==
    /\ updateStatusRequire(sender, cargoId) = OK
    /\ updateStatus(sender, cargoId, status, location)

\* the condition of C18 on one state
C18_UpdateStatusFrameInState ==
    \A cargoId \in CargoIds :
        LET owner == cargos[cargoId].owner
        IN  cargos[cargoId].exists =>
              /\ \A args \in UpdateArgs :
                   /\ ENABLED UpdateStatusSucceeds(owner, cargoId, args[1], args[2])
                   /\ ~ENABLED (/\ UpdateStatusSucceeds(owner, cargoId, args[1], args[2])
                                /\ ~(/\ cargos'[cargoId] =
                                          [cargos[cargoId] EXCEPT !.status = args[1],
                                                                  !.location = args[2],
                                                                  !.timestamp = now]
                                     /\ perms' = perms))
              /\ \A viewer \in Addresses :
                   /\ \A isPublic \in BOOLEAN :
                        ~ENABLED (/\ UpdatePrivacySucceeds(owner, cargoId, isPublic, viewer)
                                  /\ cargos'[cargoId].timestamp # cargos[cargoId].timestamp)
                   /\ ~ENABLED (/\ AuthorizeSucceeds(owner, cargoId, viewer)
                                /\ cargos'[cargoId].timestamp # cargos[cargoId].timestamp)

\* C18: an updateStatus by the owner that succeeds leaves the record with
\* status and location equal to the arguments, timestamp equal to
\* block.timestamp and every other member (handles, owner, authorizedViewer,
\* isPublic, cargoId, destination) as it was, and leaves the ACL as it was;
\* updatePrivacySettings and authorizeViewer leave the timestamp as it was.
\* (in every reachable state)
C18_UpdateStatusFrame == []C18_UpdateStatusFrameInState

\* a record created in an earlier block whose status was just updated: new
\* status, location and timestamp, the ACL of its handles as creation left it
C18_Witness ==
    \E cargoId \in CargoIds :
        /\ Len(log) = 2
        /\ log[1] = <<"CargoCreated", cargoId, cargos[cargoId].owner>>
        /\ log[2] = <<"CargoStatusUpdated", cargoId, "InTransit", "Lyon">>
        /\ cargos[cargoId].status = "InTransit"
        /\ cargos[cargoId].location = "Lyon"
        /\ cargos[cargoId].timestamp = now /\ now = MaxTime
        /\ cargos[cargoId].destination = "Paris"
        /\ cargos[cargoId].authorizedViewer = ZERO /\ ~cargos[cargoId].isPublic
        /\ \A h \in Handles(cargos[cargoId]) :
             Readers(perms, h) = {Contract, cargos[cargoId].owner}

\* the callers other than the owner that a handle getter of cargoId serves
NonOwnerReaders(cargoId) ==
    {sender \in Callers : sender # cargos[cargoId].owner
                          /\ PassesEncryptedGate(sender, cargoId)}

\* a designation by the owner sets authorizedViewer to its viewer argument,
\* and one caller at most besides the owner is served by the handle getters
C19_DesignationSetsViewer ==
    \A cargoId \in CargoIds :
        LET owner == cargos[cargoId].owner
        IN  cargos[cargoId].exists =>
              /\ Cardinality(NonOwnerReaders(cargoId)) <= 1
              /\ \A viewer \in Addresses :
                   /\ \A isPublic \in BOOLEAN :
                        ~ENABLED (/\ UpdatePrivacySucceeds(owner, cargoId, isPublic, viewer)
                                  /\ cargos'[cargoId].authorizedViewer # viewer)
                   /\ ~ENABLED (/\ AuthorizeSucceeds(owner, cargoId, viewer)
                                /\ cargos'[cargoId].authorizedViewer # viewer)

\* C19: authorizedViewer is address(0) when the record is created, becomes
\* the viewer argument at every updatePrivacySettings or authorizeViewer that
\* succeeds on the id, and is changed by no other step; so it is the argument
\* of the latest designation, the earlier one being overwritten, and the
\* handle getters serve one caller at most besides the owner.
C19_LastGrantWins ==
    /\ []C19_DesignationSetsViewer
    /\ [][\A cargoId \in CargoIds :
            /\ (~cargos[cargoId].exists /\ cargos'[cargoId].exists) =>
                 cargos'[cargoId].authorizedViewer = ZERO
            /\ cargos'[cargoId].authorizedViewer # cargos[cargoId].authorizedViewer =>
                 /\ cargos[cargoId].exists
                 /\ \E viewer \in Addresses :
                      /\ cargos'[cargoId].authorizedViewer = viewer
                      /\ \/ authorizeViewer(cargos[cargoId].owner, cargoId, viewer)
                         \/ \E isPublic \in BOOLEAN :
                              updatePrivacySettings(cargos[cargoId].owner, cargoId,
                                                    isPublic, viewer)]_vars

\* a record with a second viewer in place of a first: the first keeps its ACL
\* pairs, and the second is the only caller besides the owner that the handle
\* getters serve
C19_Witness ==
    \E cargoId \in CargoIds, first \in Senders, second \in Addresses :
        /\ ~deterministic
        /\ cargos[cargoId].exists
        /\ cargos[cargoId].authorizedViewer = second
        /\ first \notin {second, cargos[cargoId].owner}
        /\ second # cargos[cargoId].owner
        /\ \A h \in Handles(cargos[cargoId]) : isAllowed(h, first)
        /\ NonOwnerReaders(cargoId) = {second}

\* outcome g is the revert "Cargo does not exist", nothing returned
FailsNotFound(g) == g.result = NotFound /\ g.ret = NoRet

\* the condition of C20 on one state
C20_AbsentIdFailsClosedInState ==
    \A cargoId \in CargoIds :
        ~cargos[cargoId].exists =>
          /\ \A sender \in Callers :
               /\ updateStatusRequire(sender, cargoId) = NotFound
               /\ updatePrivacySettingsRequire(sender, cargoId) = NotFound
               /\ authorizeViewerRequire(sender, cargoId) = NotFound
               /\ FailsNotFound(getCargoId(sender, cargoId))
               /\ FailsNotFound(getCargoDestination(sender, cargoId))
               /\ FailsNotFound(getCargoStatus(sender, cargoId))
               /\ FailsNotFound(getCargoLocation(sender, cargoId))
               /\ FailsNotFound(isCargoPublic(sender, cargoId))
               /\ FailsNotFound(getCargoOwner(sender, cargoId))
               /\ FailsNotFound(getCargoTimestamp(sender, cargoId))
               /\ FailsNotFound(getPublicCargoDestination(sender, cargoId))
               /\ FailsNotFound(getPublicCargoStatus(sender, cargoId))
               /\ FailsNotFound(getPublicCargoLocation(sender, cargoId))
               /\ FailsNotFound(getPublicCargoOwner(sender, cargoId))
               /\ FailsNotFound(getEncryptedPriority(sender, cargoId))
               /\ FailsNotFound(getEncryptedIsFragile(sender, cargoId))
               /\ FailsNotFound(getEncryptedValue(sender, cargoId))
          /\ \A sender \in Addresses :
               /\ \A args \in UpdateArgs :
                    ~ENABLED (/\ updateStatus(sender, cargoId, args[1], args[2])
                              /\ contractState' # contractState)
               /\ \A viewer \in Addresses :
                    /\ \A isPublic \in BOOLEAN :
                         ~ENABLED (/\ updatePrivacySettings(sender, cargoId,
                                                            isPublic, viewer)
                                   /\ contractState' # contractState)
                    /\ ~ENABLED (/\ authorizeViewer(sender, cargoId, viewer)
                                 /\ contractState' # contractState)

\* C20: on an id without a record, updateStatus, updatePrivacySettings and
\* authorizeViewer revert with "Cargo does not exist" for every sender and
\* leave records, owner index, ACL and event log as they were, and each view
\* function that takes an id reverts with the same message for every caller
\* and returns nothing.
\* (in every reachable state)
C20_AbsentIdFailsClosed == []C20_AbsentIdFailsClosedInState

\* next to a public record with a viewer, an id without a record: the owner
\* and the viewer of the first are refused on the second like anyone
C20_Witness ==
    \E cargoId \in CargoIds, absent \in CargoIds \ {""} :
        /\ cargos[cargoId].exists /\ cargos[cargoId].isPublic
        /\ cargos[cargoId].authorizedViewer \in Senders \ {cargos[cargoId].owner}
        /\ ~cargos[absent].exists
        /\ cargos[absent] = EmptyCargo
        /\ \A sender \in {cargos[cargoId].owner, cargos[cargoId].authorizedViewer, ZERO} :
             /\ updateStatusRequire(sender, absent) = NotFound
             /\ FailsNotFound(getCargoStatus(sender, absent))
             /\ FailsNotFound(getPublicCargoOwner(sender, absent))
             /\ FailsNotFound(getEncryptedValue(sender, absent))

\* some record that exists before the step is not the same after it
ExistingRecordChanged ==
    \E cargoId \in CargoIds :
        cargos[cargoId].exists /\ cargos'[cargoId] # cargos[cargoId]

\* no createCargo, and no updateStatus, updatePrivacySettings or
\* authorizeViewer sent by another account than the owner of the id it names,
\* changes a record that exists
C21_OthersChangeNothing ==
    \A sender \in Senders, cargoId \in CargoIds :
        /\ \A args \in CreateArgs, isFragile \in IsFragileArgs, cargoValue \in ValueArgs :
             ~ENABLED (/\ createCargo(sender, cargoId, args[1], args[2],
                                      isFragile, cargoValue)
                       /\ ExistingRecordChanged)
        /\ sender # cargos[cargoId].owner =>
             /\ \A args \in UpdateArgs :
                  ~ENABLED (/\ updateStatus(sender, cargoId, args[1], args[2])
                            /\ ExistingRecordChanged)
             /\ \A viewer \in Addresses :
                  /\ \A isPublic \in BOOLEAN :
                       ~ENABLED (/\ updatePrivacySettings(sender, cargoId,
                                                          isPublic, viewer)
                                 /\ ExistingRecordChanged)
                  /\ ~ENABLED (/\ authorizeViewer(sender, cargoId, viewer)
                               /\ ExistingRecordChanged)

\* C21: a step after which an existing record differs from before is an
\* updateStatus, updatePrivacySettings or authorizeViewer on that id with the
\* record's owner as msg.sender; the same calls from any other account, and
\* createCargo from anyone, leave every existing record as it was.
C21_OnlyOwnerMutates ==
    /\ []C21_OthersChangeNothing
    /\ [][\A cargoId \in CargoIds :
            (cargos[cargoId].exists /\ cargos'[cargoId] # cargos[cargoId]) =>
              LET owner == cargos[cargoId].owner
              IN  \/ \E args \in UpdateArgs :
                       UpdateStatusSucceeds(owner, cargoId, args[1], args[2])
                  \/ \E isPublic \in BOOLEAN, viewer \in Addresses :
                       UpdatePrivacySucceeds(owner, cargoId, isPublic, viewer)
                  \/ \E viewer \in Addresses :
                       AuthorizeSucceeds(owner, cargoId, viewer)]_vars

\* two records of two owners, the first updated by its owner while the second
\* is as its owner created it
C21_Witness ==
    /\ cargos["C1"].exists /\ cargos["C2"].exists
    /\ cargos["C1"].owner # cargos["C2"].owner
    /\ cargos["C1"].authorizedViewer = cargos["C2"].owner
    /\ cargos["C2"].authorizedViewer = ZERO
    /\ cargos["C2"].status = "Created" /\ ~cargos["C2"].isPublic
    /\ updateStatusRequire(cargos["C2"].owner, "C1") = OnlyOwner

\* the ids of the CargoCreated events of owner a, in the order of the log
CreatedBy(a) ==
    LET ByOwner(e) == e[1] = "CargoCreated" /\ e[3] = a
        events == SelectSeq(log, ByOwner)
    IN  [i \in 1..Len(events) |-> events[i][2]]

C22_IndexMatchesRecords ==
    \A a \in Addresses :
        LET ids == ownerCargos[a]
        IN  /\ {ids[i] : i \in 1..Len(ids)} =
                 {cargoId \in CargoIds : cargos[cargoId].exists
                                         /\ cargos[cargoId].owner = a}
            /\ \A i \in 1..Len(ids), j \in 1..Len(ids) : ids[i] = ids[j] => i = j
            /\ ids = CreatedBy(a)
            /\ Returns(getOwnerCargos(ZERO, a), CreatedBy(a))

\* C22: in every state the array ownerCargos[a] lists, once each and in the
\* order of their creation, the ids of the existing records whose owner is a
\* (so an id is in the array of its owner only), getOwnerCargos returns that
\* array, and a step leaves each array as it was or appends one id to it.
C22_OwnerIndexReconstructible ==
    /\ []C22_IndexMatchesRecords
    /\ [][\A a \in Addresses :
            \/ ownerCargos'[a] = ownerCargos[a]
            \/ \E cargoId \in CargoIds :
                 ownerCargos'[a] = Append(ownerCargos[a], cargoId)]_vars

\* one account that created both records: its array holds the two ids in the
\* order of creation, the array of the other account is empty
C22_Witness ==
    \E a \in Senders, b \in Senders :
        /\ a # b
        /\ Len(log) = 2
        /\ ownerCargos[a] = <<log[1][2], log[2][2]>>
        /\ ownerCargos[b] = <<>>
        /\ cargos[log[1][2]].owner = a /\ cargos[log[2][2]].owner = a
        /\ cargos[log[2][2]].authorizedViewer = b

\* what each of the three emitting functions appends to the log: its event
\* when it passes its requires, nothing when it reverts
C23_OneEventPerSuccess ==
    \A sender \in Senders, cargoId \in CargoIds :
        /\ \A args \in CreateArgs, isFragile \in IsFragileArgs, cargoValue \in ValueArgs :
             ~ENABLED (/\ createCargo(sender, cargoId, args[1], args[2],
                                      isFragile, cargoValue)
                       /\ log' # IF createCargoRequire(cargoId, args[1], args[2]) = OK
                                 THEN Append(log, <<"CargoCreated", cargoId, sender>>)
                                 ELSE log)
        /\ \A args \in UpdateArgs :
             ~ENABLED (/\ updateStatus(sender, cargoId, args[1], args[2])
                       /\ log' # IF updateStatusRequire(sender, cargoId) = OK
                                 THEN Append(log, <<"CargoStatusUpdated", cargoId,
                                                    args[1], args[2]>>)
                                 ELSE log)
        /\ \A isPublic \in BOOLEAN, viewer \in Addresses :
             ~ENABLED (/\ updatePrivacySettings(sender, cargoId, isPublic, viewer)
                       /\ log' # IF updatePrivacySettingsRequire(sender, cargoId) = OK
                                 THEN Append(log, <<"CargoPrivacyUpdated", cargoId,
                                                    isPublic>>)
                                 ELSE log)

\* the events of an id: one CargoCreated if it has a record, none if not, and
\* no other event of the id before it
C23_CreationComesFirst ==
    \A cargoId \in CargoIds :
        /\ CreatedCount(cargoId) = IF cargos[cargoId].exists THEN 1 ELSE 0
        /\ \A i \in 1..Len(log) :
             (log[i][2] = cargoId /\ log[i][1] # "CargoCreated") =>
               \E j \in 1..(i - 1) :
                  log[j][1] = "CargoCreated" /\ log[j][2] = cargoId

\* C23: a createCargo, updateStatus or updatePrivacySettings that succeeds
\* appends one event, CargoCreated(id, sender), CargoStatusUpdated(id, status,
\* location) or CargoPrivacyUpdated(id, isPublic) with the arguments of the
\* call, and one that reverts appends none; the log is only ever extended, and
\* for each id it holds one CargoCreated, ahead of every other event of the id.
C23_NotificationLog ==
    /\ [](C23_OneEventPerSuccess /\ C23_CreationComesFirst)
    /\ [][log' = log \/ \E e \in {log'[Len(log')]} : log' = Append(log, e)]_vars

\* a log of a creation followed by the privacy change of the same id,
\* carrying the new isPublic
C23_Witness ==
    \E cargoId \in CargoIds :
        /\ log = <<<<"CargoCreated", cargoId, cargos[cargoId].owner>>,
                   <<"CargoPrivacyUpdated", cargoId, TRUE>>>>
        /\ cargos[cargoId].isPublic
        /\ cargos[cargoId].authorizedViewer \in Senders \ {cargos[cargoId].owner}

\* C24 as stated: a step after which a record is not what it was before
\* (authorizedViewer included) appends an event to the log.
C24_EveryMutationNotified ==
    [][\A cargoId \in CargoIds :
         cargos'[cargoId] # cargos[cargoId] => Len(log') = Len(log) + 1]_vars

\* <<status, location>> of the latest CargoStatusUpdated event of cargoId, or
\* what createCargo stores if there is none
LatestStatus(cargoId) ==
    LET updates == {i \in 1..Len(log) : log[i][1] = "CargoStatusUpdated"
                                        /\ log[i][2] = cargoId}
        last == CHOOSE i \in updates : \A j \in updates : j <= i
    IN  IF updates = {} THEN <<"Created", "Origin">>
        ELSE <<log[last][3], log[last][4]>>

C25_ReadsAreLatest ==
    \A cargoId \in CargoIds :
        LET c == cargos[cargoId]
            latest == LatestStatus(cargoId)
        IN  c.exists =>
              /\ \A sender \in Callers :
                   /\ (sender \in {c.owner, c.authorizedViewer} \/ c.isPublic) =>
                        /\ Returns(getCargoStatus(sender, cargoId), latest[1])
                        /\ Returns(getCargoLocation(sender, cargoId), latest[2])
                   /\ c.isPublic =>
                        /\ Returns(getPublicCargoStatus(sender, cargoId), latest[1])
                        /\ Returns(getPublicCargoLocation(sender, cargoId), latest[2])
              /\ \A args \in UpdateArgs :
                   /\ ENABLED (/\ UpdateStatusSucceeds(c.owner, cargoId, args[1], args[2])
                               /\ LatestStatus(cargoId)' = <<args[1], args[2]>>
                               /\ Returns(getCargoStatus(c.owner, cargoId), args[1])'
                               /\ Returns(getCargoLocation(c.owner, cargoId), args[2])')
                   /\ \A sender \in Senders \ {c.owner} :
                        ~ENABLED (/\ updateStatus(sender, cargoId, args[1], args[2])
                                  /\ \/ cargos'[cargoId].status # c.status
                                     \/ cargos'[cargoId].location # c.location)

\* C25: in every state, for every record, getCargoStatus and getCargoLocation
\* (for a caller that is owner or viewer, or anyone if the record is public)
\* and getPublicCargoStatus and getPublicCargoLocation (if it is public)
\* return the status and location of the latest CargoStatusUpdated event of
\* the id, or "Created" and "Origin" if there is none; an updateStatus from
\* another account than the owner changes neither, and the owner's
\* updateStatus succeeds from every state and is what is read next.
C25_ReadersSeeLatestUpdate ==
    /\ []C25_ReadsAreLatest
    /\ [][\A cargoId \in CargoIds :
            (/\ cargos[cargoId].exists
             /\ \/ cargos'[cargoId].status # cargos[cargoId].status
                \/ cargos'[cargoId].location # cargos[cargoId].location) =>
               log' = Append(log, <<"CargoStatusUpdated", cargoId,
                                    cargos'[cargoId].status,
                                    cargos'[cargoId].location>>)]_vars

\* a record of which the viewer reads the status and location of the owner's
\* update, an update from the viewer itself being refused
C25_Witness ==
    \E cargoId \in CargoIds, viewer \in Senders :
        /\ cargos[cargoId].exists /\ ~cargos[cargoId].isPublic
        /\ cargos[cargoId].authorizedViewer = viewer
        /\ viewer # cargos[cargoId].owner
        /\ LatestStatus(cargoId) = <<"InTransit", "Lyon">>
        /\ Returns(getCargoStatus(viewer, cargoId), "InTransit")
        /\ Returns(getCargoLocation(viewer, cargoId), "Lyon")
        /\ updateStatusRequire(viewer, cargoId) = OnlyOwner
        /\ updateStatusRequire(cargos[cargoId].owner, cargoId) = OK

\* what a caller learns of the status and location of cargoId from its own
\* view calls: the outcome of the four getters of the two members, and the
\* two members as the getter of the public mapping returns them
StatusReads(sender, cargoId) ==
    <<getCargoStatus(sender, cargoId), getCargoLocation(sender, cargoId),
      getPublicCargoStatus(sender, cargoId), getPublicCargoLocation(sender, cargoId),
      cargosGetter(sender, cargoId).ret.status,
      cargosGetter(sender, cargoId).ret.location>>

\* the observation of a party: the events emitted and the results of its calls
Observation(sender, cargoId) == <<log, StatusReads(sender, cargoId)>>

\* the observations an updateStatus on cargoId could leave to a caller that
\* the gated getters refuse: the log as it is, or with one event more (naming
\* the id alone, or the id with a status and location), and the public-mapping
\* members as they are or as some status and location
ObservationsAfterUpdate(sender, cargoId) ==
    LET texts == UpdateArgs \cup {<<cargos[cargoId].status, cargos[cargoId].location>>}
        logs == {log, Append(log, <<"CargoStatusUpdated", cargoId>>)}
                  \cup {Append(log, <<"CargoStatusUpdated", cargoId, t[1], t[2]>>) :
                          t \in texts}
        r == StatusReads(sender, cargoId)
    IN  {<<l, <<r[1], r[2], r[3], r[4], t[1], t[2]>>>> : l \in logs, t \in texts}

\* C26 as stated: for a private record and a party that is neither its owner
\* nor its viewer, what the party observes after the owner's updateStatus (the
\* events emitted and the results of the party's own calls) is the same
\* whatever status and location the owner passes.
C26_UpdatesConfidential ==
    \A cargoId \in CargoIds, party \in Callers :
        LET c == cargos[cargoId]
        IN  (c.exists /\ ~c.isPublic /\ party \notin {c.owner, c.authorizedViewer}) =>
              \E seen \in ObservationsAfterUpdate(party, cargoId) :
                 \A args \in UpdateArgs :
                    ~ENABLED (/\ UpdateStatusSucceeds(c.owner, cargoId, args[1], args[2])
                              /\ Observation(party, cargoId)' # seen)

\* C30 as stated: while the authorizedViewer of a record is address(0), the
\* owner is the only caller address, address(0) included, that passes the
\* check of the handle getters, and for a private record the only one that
\* passes the check of the plaintext getters.
C30_NoViewerOwnerOnly ==
    \A cargoId \in CargoIds :
        LET c == cargos[cargoId]
        IN  (c.exists /\ c.authorizedViewer = ZERO) =>
              \A sender \in Callers \ {c.owner} :
                 /\ ~PassesEncryptedGate(sender, cargoId)
                 /\ ~c.isPublic => ~PassesStandardGate(sender, cargoId)

\* C29 as stated: for every existing record, every caller that the handle
\* getters let through holds permission in the ACL on the three handles of
\* the record; the owner and the contract hold it in any case.
C29_GateImpliesPermission ==
    \A cargoId \in CargoIds :
        LET c == cargos[cargoId]
        IN  c.exists =>
              /\ \A h \in Handles(c) : isAllowed(h, c.owner) /\ isAllowed(h, Contract)
              /\ \A sender \in Callers :
                    PassesEncryptedGate(sender, cargoId) =>
                       \A h \in Handles(c) : isAllowed(h, sender)

(***************************************************************************)
(* The tutorial's contract PrivateCargoTracking (unnamed/part_000,         *)
(* chapter 2).  Cargos are numbered by the counter nextCargoId; the        *)
(* encrypted inputs of a call are ciphertexts produced off chain, of which *)
(* the contract keeps the handle.  `nextCargoId++` is checked arithmetic:  *)
(* at 2^32 - 1 the call would revert, far past the runs followed here.     *)
(***************************************************************************)
WeightArgs == {1000}
CargoValueArgs == {5000}
ReceiverArgs == {2}
LocationArgs == {<<48, 2, 1>>}      \* (latitude, longitude, status)
OnlyShipper == "Only shipper can grant access"
InvalidCargoId == "Invalid cargo ID"

\* FHEVM.asEuint32 / FHEVM.asEaddress of an encrypted input
asEuint32(input) == TrivialEncrypt("euint32", input, "")
asEaddress(input) == TrivialEncrypt("eaddress", input, "")

\* a reverted transaction of the tutorial contract
Tutorial_Revert ==
    UNCHANGED <<Tutorial_cargos, nextCargoId, cargoLocations, cargoAccess,
                returned, perms, log, now>>

\* return ++nextCargoId instead of return nextCargoId++
Tutorial_createCargoPreIncrement(sender, encryptedWeight, encryptedValue, encryptedReceiver) ==
    LET weight == asEuint32(encryptedWeight)
        value == asEuint32(encryptedValue)
        receiver == asEaddress(encryptedReceiver)
    IN  /\ Tutorial_cargos' =
              [Tutorial_cargos EXCEPT ![nextCargoId] =
                  [weight |-> weight, value |-> value, receiver |-> receiver,
                   status |-> asEuint32(0), shipper |-> sender, timestamp |-> now]]
        /\ perms' = Allow(Allow(Allow(perms, weight, sender), value, sender),
                          receiver, sender)
        /\ log' = Append(log, <<"CargoCreated", nextCargoId, sender>>)
        /\ nextCargoId' = nextCargoId + 1
        /\ returned' = nextCargoId + 1
        /\ UNCHANGED <<cargoLocations, cargoAccess, now>>

\* createCargo(einput, einput, einput) external returns (uint32): no require
Tutorial_createCargo(sender, encryptedWeight, encryptedValue, encryptedReceiver) ==
    LET weight == asEuint32(encryptedWeight)
        value == asEuint32(encryptedValue)
        receiver == asEaddress(encryptedReceiver)
    IN  /\ Tutorial_cargos' =
              [Tutorial_cargos EXCEPT ![nextCargoId] =
                  [weight |-> weight, value |-> value, receiver |-> receiver,
                   status |-> asEuint32(0), shipper |-> sender, timestamp |-> now]]
        /\ perms' = Allow(Allow(Allow(perms, weight, sender), value, sender),
                          receiver, sender)
        /\ log' = Append(log, <<"CargoCreated", nextCargoId, sender>>)
        /\ returned' = nextCargoId
        /\ nextCargoId' = nextCargoId + 1
        /\ UNCHANGED <<cargoLocations, cargoAccess, now>>

updateLocationRequire(cargoId) ==
    IF cargoId < nextCargoId THEN OK ELSE InvalidCargoId

\* updateLocation(uint32, einput, einput, einput) external
updateLocation(sender, cargoId, encryptedLat, encryptedLng, encryptedStatus) ==
    LET lat == asEuint32(encryptedLat)
        lng == asEuint32(encryptedLng)
        status == asEuint32(encryptedStatus)
    IN  IF updateLocationRequire(cargoId) # OK
        THEN Tutorial_Revert
        ELSE /\ cargoLocations' =
                   [cargoLocations EXCEPT ![cargoId] =
                       Append(@, [latitude |-> lat, longitude |-> lng,
                                  status |-> status, timestamp |-> now])]
             /\ Tutorial_cargos' = [Tutorial_cargos EXCEPT ![cargoId].status = status]
             /\ perms' = Allow(Allow(Allow(perms, lat, sender), lng, sender),
                               status, sender)
             /\ log' = Append(log, <<"CargoUpdated", cargoId, sender>>)
             /\ UNCHANGED <<nextCargoId, cargoAccess, returned, now>>

\* the handles grantAccess allows: the four of the cargo and three per location
GrantedHandles(cargoId) ==
    LET c == Tutorial_cargos[cargoId]
        locs == cargoLocations[cargoId]
    IN  {c.weight, c.value, c.receiver, c.status}
          \cup UNION {{locs[i].latitude, locs[i].longitude, locs[i].status} :
                        i \in 1..Len(locs)}

grantAccessRequire(sender, cargoId) ==
    IF Tutorial_cargos[cargoId].shipper = sender THEN OK ELSE OnlyShipper

\* grantAccess(uint32, address) external
grantAccess(sender, cargoId, authorized) ==
    IF grantAccessRequire(sender, cargoId) # OK
    THEN Tutorial_Revert
    ELSE /\ perms' = perms \cup {<<h, authorized>> : h \in GrantedHandles(cargoId)}
         /\ cargoAccess' = [cargoAccess EXCEPT ![cargoId][authorized] = TRUE]
         /\ UNCHANGED <<Tutorial_cargos, nextCargoId, cargoLocations, returned,
                        log, now>>

\* hasAccess(uint32, address) external view returns (bool)
hasAccess(cargoId, user) ==
    Tutorial_cargos[cargoId].shipper = user \/ cargoAccess[cargoId][user]

\* the other contract and the frontend take no part
MainUnchanged == UNCHANGED <<cargos, ownerCargos, deterministic, frontendVars>>

CallTutorialCreateCargo ==
    \E sender \in Senders, w \in WeightArgs, v \in CargoValueArgs, r \in ReceiverArgs :
        /\ Len(log) < MaxLog
        /\ Tutorial_createCargo(sender, w, v, r)
        /\ MainUnchanged

CallUpdateLocation ==
    \E sender \in Senders, cargoId \in CargoNumbers, args \in LocationArgs :
        /\ Len(log) < MaxLog
        /\ updateLocation(sender, cargoId, args[1], args[2], args[3])
        /\ MainUnchanged

CallGrantAccess ==
    \E sender \in Senders, cargoId \in CargoNumbers, authorized \in Senders :
        /\ grantAccess(sender, cargoId, authorized)
        /\ MainUnchanged

TutorialNextBlock ==
    /\ now < MaxTime
    /\ now' = now + 1
    /\ UNCHANGED <<perms, log, tutorialVars>>
    /\ MainUnchanged

NextTutorial ==
    \/ CallTutorialCreateCargo
    \/ CallUpdateLocation
    \/ CallGrantAccess
    \/ TutorialNextBlock

\* the tutorial contract deployed alone
InitTutorial ==
    /\ Tutorial_Init
    /\ FrontendNotLoaded
    /\ cargos = NotDeployed
    /\ ownerCargos = NotDeployed
    /\ perms = {}
    /\ log = <<>>
    /\ now = 0
    /\ deterministic \in BOOLEAN

SpecTutorial == InitTutorial /\ [][NextTutorial]_vars

\* the CargoCreated events of the tutorial contract, in the order emitted:
\* one per successful createCargo
Tutorial_Created == SelectSeq(log, LAMBDA e : e[1] = "CargoCreated")

\* createCargo of the tutorial contract sent by sender takes its step
Tutorial_CreateSucceeds(sender) ==
    \E w \in WeightArgs, v \in CargoValueArgs, r \in ReceiverArgs :
        Tutorial_createCargo(sender, w, v, r)

\* after n createCargo calls: the counter is n + 1, the k-th call announced id
\* k and its record is the one stored under k, the latest call returned n, no
\* other key holds a created record, and the next call by any sender returns
\* and stores n + 1 and moves the counter to n + 2
C27_IdsInOrder ==
    LET n == Len(Tutorial_Created)
    IN  /\ nextCargoId = n + 1
        /\ \A k \in 1..n :
              /\ Tutorial_Created[k][2] = k
              /\ Tutorial_cargos[k].shipper = Tutorial_Created[k][3]
              /\ Tutorial_cargos[k].weight # NoHandle
        /\ n > 0 => returned = n
        /\ \A id \in CargoNumbers \ (1..n) :
              /\ Tutorial_cargos[id].shipper = ZERO
              /\ Tutorial_cargos[id].weight = NoHandle
        /\ \A sender \in Senders :
              /\ ENABLED Tutorial_CreateSucceeds(sender)
              /\ ~ENABLED (/\ Tutorial_CreateSucceeds(sender)
                           /\ ~(/\ returned' = n + 1
                                /\ nextCargoId' = n + 2
                                /\ Tutorial_cargos'[n + 1].shipper = sender
                                /\ Tutorial_cargos'[n + 1].timestamp = now
                                /\ Len(Tutorial_Created') = n + 1
                                /\ \A id \in CargoNumbers \ {n + 1} :
                                      Tutorial_cargos'[id] = Tutorial_cargos[id]))

\* C27: tutorial contract: ids are assigned in sequence from 1.  After n
\* successful createCargo calls, by whatever callers, nextCargoId is n + 1,
\* the k-th call returned k and stored its cargo under k, and no two cargos
\* share an id: no step changes the counter other than by one, and none
\* replaces the shipper or the creation time of a cargo already created.
C27_SequentialIds ==
    /\ []C27_IdsInOrder
    /\ [][/\ nextCargoId' \in {nextCargoId, nextCargoId + 1}
          /\ nextCargoId' # nextCargoId => returned' = nextCargoId
          /\ \A k \in 1..(nextCargoId - 1) :
                /\ Tutorial_cargos'[k].shipper = Tutorial_cargos[k].shipper
                /\ Tutorial_cargos'[k].timestamp = Tutorial_cargos[k].timestamp
                /\ Tutorial_cargos'[k].weight = Tutorial_cargos[k].weight]_vars

\* two cargos created by different callers at different times, the second
\* under id 2
C27_Witness ==
    /\ nextCargoId = 3
    /\ returned = 2
    /\ Tutorial_cargos[1].shipper = 1
    /\ Tutorial_cargos[2].shipper = 2
    /\ Tutorial_cargos[1].timestamp < Tutorial_cargos[2].timestamp

\* what a transaction of the tutorial contract can change: its storage, the
\* ACL and the event log
tutorialState == <<tutorialVars, perms, log>>

\* grantAccess sent by an address that is not the shipper of the cargo
\* reverts with "Only shipper can grant access" and changes nothing, and
\* hasAccess is true exactly for the shipper of the cargo and the addresses
\* that cargoAccess marks
C28_GrantGuarded ==
    \A cargoId \in CargoNumbers, user \in Addresses :
        /\ \A sender \in Senders \ {Tutorial_cargos[cargoId].shipper} :
              /\ grantAccessRequire(sender, cargoId) = OnlyShipper
              /\ ~ENABLED (grantAccess(sender, cargoId, user)
                            /\ tutorialState' # tutorialState)
        /\ hasAccess(cargoId, user) <=>
              \/ Tutorial_cargos[cargoId].shipper = user
              \/ cargoAccess[cargoId][user]

\* C28 as stated: tutorial contract: grantAccess by a caller who is not the
\* shipper reverts and changes nothing; hasAccess(cargoId, user) is true
\* exactly when user is the shipper or the shipper has made a successful
\* grantAccess(cargoId, user) (cargoAccess is set by such a step alone), and
\* once true it stays true.
C28_AccessByShipperGrantOnly ==
    /\ []C28_GrantGuarded
    /\ [][\A cargoId \in CargoNumbers, user \in Addresses :
            /\ (cargoAccess'[cargoId][user] /\ ~cargoAccess[cargoId][user]) =>
                  /\ Tutorial_cargos[cargoId].shipper \in Senders
                  /\ grantAccess(Tutorial_cargos[cargoId].shipper, cargoId, user)
            /\ hasAccess(cargoId, user) => hasAccess(cargoId, user)']_vars

\* the records and ACLs a designation of viewer on cargoId could leave: the
\* record as it is or with the viewer assigned, and the ACL with any of the
\* viewer's pairs on the three handles added
DesignationOutcomes(cargoId, viewer) ==
    LET records == {cargos, [cargos EXCEPT ![cargoId].authorizedViewer = viewer]}
        pairs == {<<h, viewer>> : h \in Handles(cargos[cargoId])}
    IN  {<<r, perms \cup added>> : r \in records, added \in SUBSET pairs}

\* C31 as stated: for every existing record, every viewer argument (address(0)
\* included) and the isPublic the record holds, authorizeViewer(id, viewer)
\* and updatePrivacySettings(id, isPublic, viewer), each sent by the owner from
\* the same state, both succeed and leave the same records and the same ACL.
C31_DesignationPathsAgree ==
    \A cargoId \in CargoIds, viewer \in Addresses :
        LET c == cargos[cargoId]
        IN  c.exists =>
              /\ ENABLED AuthorizeSucceeds(c.owner, cargoId, viewer)
              /\ ENABLED UpdatePrivacySucceeds(c.owner, cargoId, c.isPublic, viewer)
              /\ \E outcome \in DesignationOutcomes(cargoId, viewer) :
                    /\ ~ENABLED (/\ AuthorizeSucceeds(c.owner, cargoId, viewer)
                                 /\ <<cargos', perms'>> # outcome)
                    /\ ~ENABLED (/\ UpdatePrivacySucceeds(c.owner, cargoId,
                                                          c.isPublic, viewer)
                                 /\ <<cargos', perms'>> # outcome)

\* the condition of C32 on one state
C32_ErrorPrecedenceInState ==
    \A cargoId \in CargoIds :
        /\ ~cargos[cargoId].exists =>
              \A sender \in Callers \ {ZERO} :
                 \* the sender is neither owner nor viewer of anything under this id
                 /\ updateStatusRequire(sender, cargoId) = NotFound
                 /\ updatePrivacySettingsRequire(sender, cargoId) = NotFound
                 /\ authorizeViewerRequire(sender, cargoId) = NotFound
                 /\ getCargoId(sender, cargoId).result = NotFound
                 /\ getEncryptedPriority(sender, cargoId).result = NotFound
                 /\ getPublicCargoStatus(sender, cargoId).result = NotFound
        /\ \A destination \in DestinationArgs, priority \in PriorityRange :
              LET reason == createCargoRequire(cargoId, destination, priority)
              IN  /\ cargos[cargoId].exists => reason = AlreadyExists
                  /\ (~cargos[cargoId].exists /\ cargoId = "") => reason = EmptyId
                  /\ (~cargos[cargoId].exists /\ cargoId # "" /\ destination = "") =>
                        reason = EmptyDestination
                  /\ (/\ ~cargos[cargoId].exists /\ cargoId # "" /\ destination # ""
                      /\ priority > MaxPriority) => reason = BadPriority
                  /\ reason # OK =>
                        \A sender \in Senders, isFragile \in IsFragileArgs,
                           cargoValue \in ValueArgs :
                           ~ENABLED (/\ createCargo(sender, cargoId, destination,
                                                    priority, isFragile, cargoValue)
                                     /\ contractState' # contractState)

\* C32: the reported error follows the order of the checks.  On an id without
\* a record a mutating call or a getter reports "Cargo does not exist" also
\* for a caller that is neither owner nor viewer; createCargo on an existing
\* id reports "Cargo already exists" also with an empty destination or a
\* priority above 3; and of the invalid arguments the empty id is reported
\* before the empty destination and that before the priority out of range.
\* The refused createCargo changes nothing.
C32_ErrorPrecedence == []C32_ErrorPrecedenceInState

\* a record exists under C1, so that createCargo("C1", "", 4) meets all of an
\* existing id, an empty destination and a priority out of range, while C2 has
\* no record and the owner of C1 is a stranger to it
C32_Witness ==
    /\ cargos["C1"].exists
    /\ ~cargos["C2"].exists
    /\ createCargoRequire("C1", "", MaxPriority + 1) = AlreadyExists
    /\ createCargoRequire("C2", "", MaxPriority + 1) = EmptyDestination
    /\ createCargoRequire("", "", MaxPriority + 1) = EmptyId
    /\ getEncryptedPriority(cargos["C1"].owner, "C2").result = NotFound
    /\ Len(log) > 1

\* a step is confined to the record under cargoId and to the sender: every
\* other record is as it was, the index of every other address is as it was,
\* no ACL pair is gone and every pair added is on a handle of that record
ConfinedTo(sender, cargoId) ==
    /\ \/ cargos' = cargos
       \/ \A id \in CargoIds \ {cargoId} : cargos'[id] = cargos[id]
    /\ \/ ownerCargos' = ownerCargos
       \/ \A a \in Addresses \ {sender} : ownerCargos'[a] = ownerCargos[a]
    /\ \/ perms' = perms
       \/ /\ perms \subseteq perms'
          /\ \A p \in perms' \ perms : p[1] \in Handles(cargos'[cargoId])

\* the ACL pairs on the handles of every other existing record are as they were
OtherPermsUnchanged(cargoId) ==
    \A id \in CargoIds \ {cargoId} :
        cargos[id].exists => PermsOf(perms', cargos[id]) = PermsOf(perms, cargos[id])

\* the condition of C33 on one state, for the step condition frame(sender, id)
C33_Isolated(frame(_, _)) ==
    \A sender \in Senders, cargoId \in CargoIds :
        /\ \A args \in CreateArgs, isFragile \in IsFragileArgs, cargoValue \in ValueArgs :
              ~ENABLED (/\ createCargo(sender, cargoId, args[1], args[2],
                                       isFragile, cargoValue)
                        /\ ~frame(sender, cargoId))
        /\ \A args \in UpdateArgs :
              ~ENABLED (/\ updateStatus(sender, cargoId, args[1], args[2])
                        /\ ~frame(sender, cargoId))
        /\ \A isPublic \in BOOLEAN, viewer \in Addresses :
              ~ENABLED (/\ updatePrivacySettings(sender, cargoId, isPublic, viewer)
                        /\ ~frame(sender, cargoId))
        /\ \A viewer \in Addresses :
              ~ENABLED (/\ authorizeViewer(sender, cargoId, viewer)
                        /\ ~frame(sender, cargoId))

C33_AsStatedFrame(sender, cargoId) ==
    ConfinedTo(sender, cargoId) /\ OtherPermsUnchanged(cargoId)

\* C33 as stated: every call on an id, successful or failing, leaves every
\* record under another id unchanged, leaves the ACL pairs on the handles of
\* the other records unchanged, and leaves the index of every address other
\* than the caller unchanged.
C33_OtherHandlesUntouched == C33_Isolated(C33_AsStatedFrame)

\* C33, amended: every call on an id, successful or failing, leaves every
\* record under another id and the index of every address other than the
\* caller unchanged, removes no ACL pair and adds pairs only on handles of the
\* record under that id (handles which another record holds too when the
\* library gave both the same handle).
C33_CrossRecordIsolation == []C33_Isolated(ConfinedTo)

\* two records of different owners with handles of their own; the second got
\* the owner of the first as viewer, and the first is as created, with the
\* contract and its owner alone allowed on its handles
C33_Witness ==
    /\ ~deterministic
    /\ cargos["C1"].exists /\ cargos["C2"].exists
    /\ cargos["C1"].owner # cargos["C2"].owner
    /\ cargos["C1"].authorizedViewer = ZERO
    /\ cargos["C2"].authorizedViewer = cargos["C1"].owner
    /\ \A h \in Handles(cargos["C1"]) :
          Readers(perms, h) = {Contract, cargos["C1"].owner}
    /\ ownerCargos[cargos["C1"].owner] = <<"C1">>
    /\ ownerCargos[cargos["C2"].owner] = <<"C2">>

\* the condition of C34 on one state: the owner of every existing record is a
\* sender, is served by the six plaintext getters and the three handle
\* getters, and its updateStatus, updatePrivacySettings and authorizeViewer
\* pass their requires and take their step for every argument
C34_OwnerServed ==
    \A cargoId \in CargoIds :
        LET owner == cargos[cargoId].owner
        IN  cargos[cargoId].exists =>
              /\ owner \in Senders
              /\ ServedByStandardGetters(owner, cargoId)
              /\ ServedByEncryptedGetters(owner, cargoId)
              /\ \A args \in UpdateArgs :
                    ENABLED UpdateStatusSucceeds(owner, cargoId, args[1], args[2])
              /\ \A isPublic \in BOOLEAN, viewer \in Addresses :
                    ENABLED UpdatePrivacySucceeds(owner, cargoId, isPublic, viewer)
              /\ \A viewer \in Addresses :
                    ENABLED AuthorizeSucceeds(owner, cargoId, viewer)

\* C34: the owner cannot be locked out.  In every reachable state, whatever
\* updateStatus, updatePrivacySettings and authorizeViewer calls came before,
\* the owner of an existing record passes the check of the plaintext getters
\* and of the handle getters, and its updateStatus, updatePrivacySettings and
\* authorizeViewer succeed for every argument, empty strings included; and no
\* step removes a record or replaces its owner.
C34_OwnerNeverLockedOut ==
    /\ []C34_OwnerServed
    /\ [][\A cargoId \in CargoIds :
            cargos[cargoId].exists =>
               /\ cargos'[cargoId].exists
               /\ cargos'[cargoId].owner = cargos[cargoId].owner]_vars

\* a record whose owner designated itself as viewer and set status
\* and location to the empty string
C34_Witness ==
    \E cargoId \in CargoIds :
        /\ cargos[cargoId].exists
        /\ cargos[cargoId].authorizedViewer = cargos[cargoId].owner
        /\ cargos[cargoId].status = "" /\ cargos[cargoId].location = ""
        /\ \A h \in Handles(cargos[cargoId]) : isAllowed(h, cargos[cargoId].owner)
        /\ Returns(getCargoStatus(cargos[cargoId].owner, cargoId), "")

\* the encrypted fields stored for a cargo: weight, value, receiver, the
\* current status, and latitude, longitude and status of every location entry
StoredFields(cargoId) == GrantedHandles(cargoId) \ {NoHandle}

\* C35 as stated: tutorial contract: whenever hasAccess(cargoId, user) is
\* true, user is allowed in the ACL on every encrypted field stored for the
\* cargo, the entries that updateLocation added after the grant or that
\* another caller added included.
C35_AccessImpliesPermission ==
    \A cargoId \in CargoNumbers, user \in Addresses :
        hasAccess(cargoId, user) =>
           \A h \in StoredFields(cargoId) : isAllowed(h, user)

(***************************************************************************)
(* The tutorial's frontend module src/utils/fhevm.js (unnamed/part_000,    *)
(* chapter 3).  JavaScript runs one task at a time: a call of the async    *)
(* function initFHEVM runs without interruption up to its await and is     *)
(* resumed, again without interruption, when the awaited promise settles.  *)
(* createInstance belongs to the fhevmjs library: every call of it makes   *)
(* an instance of its own, or is rejected.                                  *)
(***************************************************************************)
MaxInvoked == 3         \* calls of createInstance followed

Null == 0               \* let fhevmInstance = null
Clients == {1, 2, 3}    \* callers: ContractService.connect, encryptData

InitFrontend ==
    /\ fhevmInstance = Null
    /\ pc = [c \in Clients |-> "idle"]
    /\ pending = [c \in Clients |-> Null]
    /\ result = [c \in Clients |-> Null]
    /\ invoked = 0
    /\ failed = 0
    /\ cargos = NotDeployed /\ ownerCargos = NotDeployed
    /\ Tutorial_cargos = NotDeployed /\ nextCargoId = NotDeployed
    /\ cargoLocations = NotDeployed /\ cargoAccess = NotDeployed
    /\ returned = NotDeployed
    /\ perms = {} /\ log = <<>> /\ now = 0 /\ deterministic = TRUE

\* a call of initFHEVM by c, up to the await of createInstance or, with the
\* instance already set, to its return
initFHEVM(c) ==
    /\ pc[c] # "awaiting"
    /\ IF fhevmInstance = Null
       THEN /\ invoked' = invoked + 1
            /\ pending' = [pending EXCEPT ![c] = invoked + 1]
            /\ pc' = [pc EXCEPT ![c] = "awaiting"]
            /\ UNCHANGED <<fhevmInstance, result, failed>>
       ELSE /\ result' = [result EXCEPT ![c] = fhevmInstance]
            /\ pc' = [pc EXCEPT ![c] = "returned"]
            /\ UNCHANGED <<fhevmInstance, pending, invoked, failed>>

\* the promise of createInstance fulfilled: the call of c resumes, assigns
\* the instance and returns fhevmInstance
createInstanceFulfilled(c) ==
    /\ pc[c] = "awaiting"
    /\ fhevmInstance' = pending[c]
    /\ result' = [result EXCEPT ![c] = pending[c]]
    /\ pending' = [pending EXCEPT ![c] = Null]
    /\ pc' = [pc EXCEPT ![c] = "returned"]
    /\ UNCHANGED <<invoked, failed>>

\* the promise of createInstance rejected: the call of c ends with the error,
\* nothing assigned
createInstanceRejected(c) ==
    /\ pc[c] = "awaiting"
    /\ failed' = failed + 1
    /\ pending' = [pending EXCEPT ![c] = Null]
    /\ pc' = [pc EXCEPT ![c] = "rejected"]
    /\ UNCHANGED <<fhevmInstance, result, invoked>>

\* getFHEVM()
getFHEVM == fhevmInstance

\* the contracts and the chain take no part
ContractsUnchanged ==
    UNCHANGED <<cargos, ownerCargos, perms, log, now, deterministic, tutorialVars>>

CallInitFHEVM ==
    \E c \in Clients :
        /\ fhevmInstance = Null => invoked < MaxInvoked
        /\ initFHEVM(c)
        /\ ContractsUnchanged

CreateInstanceFulfilled ==
    \E c \in Clients : createInstanceFulfilled(c) /\ ContractsUnchanged

CreateInstanceRejected ==
    \E c \in Clients : createInstanceRejected(c) /\ ContractsUnchanged

NextFrontend ==
    \/ CallInitFHEVM
    \/ CreateInstanceFulfilled
    \/ CreateInstanceRejected

SpecFrontend == InitFrontend /\ [][NextFrontend]_vars

\* C36 as stated: tutorial frontend: initFHEVM is a singleton initializer.
\* Over any number of calls and any interleaving of callers, a second call
\* starting while the first awaits createInstance included, createInstance is
\* invoked at most once and every caller receives the same instance (read
\* here for the runs in which no createInstance call is rejected).
C36_SingletonInstance ==
    failed = 0 =>
       /\ invoked <= 1
       /\ \A c \in Clients, d \in Clients :
             (pc[c] = "returned" /\ pc[d] = "returned") => result[c] = result[d]

====
